---- MODULE Spec2Model ----
(***************************************************************************)
(* Model of the worksheet generation engine of mgalavai/rhymes:            *)
(*   - the API route (src/unnamed/part_003): error classifier, text model  *)
(*     fallback, image candidate walk, bounded dispatcher, request handler *)
(*   - the client (src/src/App.tsx): generation runs, image hydration      *)
(* Each component has its own specification (SpecDispatch, SpecClassify,   *)
(* SpecText, SpecHandler, SpecApp), and so have the pure functions         *)
(* (SpecNormalize, SpecCleanWord, SpecSanitize); the variables of the      *)
(* other components stay at their initial value.  SpecAppReentrant is the  *)
(* client with handleGenerate callable at any time, SpecAppImages the      *)
(* client with card refreshes and provider values of every kind.           *)
(***************************************************************************)
EXTENDS Integers, Sequences, FiniteSets, TLC

VARIABLES
    \* ---- mapWithConcurrency on its own (SpecDispatch)
    dItems,        \* the items array passed in
    dConcurrency,  \* the concurrency argument
    dThrows,       \* the items whose mapper promise rejects
    mwc            \* the running call: results, nextIndex, workers, promise state

VARIABLES
    \* ---- isRetryableModelError on its own (SpecClassify)
    clsStatus,     \* the status argument
    clsMessage,    \* the errorMessage argument
    clsResult      \* <<>> before the call, <<returned boolean>> after

VARIABLES
    \* ---- generateWordWorksheet (SpecText)
    candidateModels,   \* the candidateModels argument
    pairCount,         \* the pairCount argument
    tPc,               \* "notCalled", "loop", "returned", "threw"
    tNext,             \* position in candidateModels of the next loop turn
    tCalls,            \* the models callGeminiModel was called with, in order
    tResponses,        \* what each of those calls returned
    lastErrorMessage,
    lastStatus,
    tReturn,           \* <<>> or <<[worksheet, usedModel]>>
    tError             \* <<>> or <<the thrown error's message>>

VARIABLES
    \* ---- the API handler's worksheet flow (SpecHandler); it also uses the
    \* generateWordWorksheet variables above and mwc
    hBody,          \* the request body fields the flow reads
    hEnv,           \* the configuration read from process.env
    hPc,            \* "idle", "text", "images", "responded"
    hWorksheet,     \* <<>> or <<worksheet returned by generateWordWorksheet>>
    hUniqueWords,   \* uniqueWords
    hJobs,          \* per worker: the state of its generateWordImage call
    hImageCalls,    \* the words image-provider calls were made for, in order
    hResponse       \* <<>> or <<[status, json]>>

VARIABLES
    \* ---- the App component (SpecApp)
    generationRunRef,   \* generationRunRef.current
    worksheet,          \* <<>> (null) or <<WorksheetData>>
    cards,              \* <<>> (null) or <<[left, right]>>
    isLoading,
    isHydratingImages,
    error,              \* <<>> ('') or <<message>>
    warning,
    warningDetails,     \* <<>> ('') or <<details>>
    runs,               \* the calls of handleGenerate so far, by run token
    refreshingCardId,   \* <<>> (null) or <<card id>>
    refreshCall,        \* <<>> or <<the call of handleRefreshCardImage in flight>>
    refreshCount        \* the calls of handleRefreshCardImage so far

VARIABLES
    \* ---- the pure functions, each on its own (SpecNormalize, SpecCleanWord,
    \* SpecSanitize): an argument and <<>> before the call, <<result>> after
    normCandidate,    \* the parsed JSON payload both normalizers are given
    normCount,        \* their pairCount argument
    normServer,       \* normalizeWordWorksheet's result
    normClient,       \* normalizeWorksheet's result
    wordRaw,          \* cleanWord's argument
    wordCleaned,      \* cleanWord(rawWord)
    wordRecleaned,    \* cleanWord of that result
    urlRaw,           \* sanitizeImageDataUrl's argument
    urlSanitized,     \* sanitizeImageDataUrl(rawValue)
    urlResanitized    \* sanitizeImageDataUrl of that result

VARIABLES
    \* ---- the smaller flows, each on its own
    svgRaw,           \* sanitizeSvg's argument
    svgSanitized,     \* <<>> before the call, <<sanitizeSvg(rawSvg)>> after
    altCurrentWord,   \* generateAlternativeWord's currentWord
    altCandidates,    \* its candidateModels
    altPc,            \* "notCalled", "loop" (awaiting callGeminiModel), "returned"
    altNext,          \* the index of the candidate being called
    altResponses,     \* what callGeminiModel returned so far, in order
    altReturn,        \* <<>> or <<the word returned>>
    reqBody,          \* the body of a request to the route
    reqEnv,           \* process.env as the route reads it
    reqParsed,        \* <<>> or <<what the handler made of both>>
    walkSingleWord,   \* generateWordImageWithGemini called for a single-word request
    walkEnv,          \* process.env as the handler reads it
    walkPc,           \* "notCalled", "await" (a provider call in flight), "returned"
    walkLocals,       \* the locals of generateWordImageWithGemini
    walkCalls,        \* the provider calls made: [model, attempt, outcome]
    walkReturn,       \* <<>> or <<what generateWordImageWithGemini returned>>
    topic,            \* the App's topic
    isRandomizingTopic,
    topicCount,       \* the calls of handleRandomizeTopic so far
    topicRequest,     \* <<>> or <<the body of the request the route is working on>>
    topicProvider,    \* <<>> or <<what the provider answered to the latest request>>
    topicResponse     \* <<>> or <<the route's response on its way to the App>>

dispatchVars == <<dItems, dConcurrency, dThrows, mwc>>

classifyVars == <<clsStatus, clsMessage, clsResult>>

textVars == <<candidateModels, pairCount, tPc, tNext, tCalls, tResponses,
              lastErrorMessage, lastStatus, tReturn, tError>>

handlerVars == <<hBody, hEnv, hPc, hWorksheet, hUniqueWords, hJobs, hImageCalls, hResponse>>

refreshVars == <<refreshingCardId, refreshCall, refreshCount>>

appVars == <<generationRunRef, worksheet, cards, isLoading, isHydratingImages, error, warning,
             warningDetails, runs, refreshVars>>

functionVars == <<normCandidate, normCount, normServer, normClient, wordRaw, wordCleaned,
                  wordRecleaned, urlRaw, urlSanitized, urlResanitized>>

svgVars == <<svgRaw, svgSanitized>>

altVars == <<altCurrentWord, altCandidates, altPc, altNext, altResponses, altReturn>>

requestVars == <<reqBody, reqEnv, reqParsed>>

walkVars == <<walkSingleWord, walkEnv, walkPc, walkLocals, walkCalls, walkReturn>>

topicVars == <<topic, isRandomizingTopic, topicCount, topicRequest, topicProvider, topicResponse>>

flowVars == <<svgVars, altVars, requestVars, walkVars, topicVars>>

vars == <<dispatchVars, classifyVars, textVars, handlerVars, appVars, functionVars, flowVars>>

\* ------------------------------------------------------------------ bounds
MaxItems == 5
MaxConcurrency == 3
MaxThrowing == 1
MaxPhrases == 2
MaxImageConcurrency == 2
MaxImageAttempts == 2
MaxRuns == 2
MaxRefreshes == 2

\* ------------------------------------------------------------------ helpers
Max(a, b) == IF a >= b THEN a ELSE b

Min(a, b) == IF a <= b THEN a ELSE b

Range(s) == {s[i] : i \in 1..Len(s)}

\* ---------------------------------------------------------------------
\* mapWithConcurrency (part_003:792-814, same text in App.tsx:329-352)
\* A call is a record; indices are 0-based as in the source, so slot
\* `index` of an array is element index+1 of the sequence.
\* A result slot is {} while empty and {value} once stored.
\* ---------------------------------------------------------------------
MwcNotCalled ==
    [items |-> <<>>, results |-> <<>>, nextIndex |-> 0, workers |-> <<>>,
     claimed |-> <<>>, settled |-> "notCalled"]

\* One turn of the worker loop up to its await:
\*   const index = nextIndex; nextIndex += 1; if (index >= items.length) return;
\*   ... await mapper(items[index], index)
\* `claimed` counts how often the mapper was started for each index.
MwcClaim(d, w) ==
    LET index == d.nextIndex IN
    IF index >= Len(d.items)
    THEN [d EXCEPT !.nextIndex = index + 1,
                   !.workers[w] = [pc |-> "returned", index |-> index]]
    ELSE [d EXCEPT !.nextIndex = index + 1,
                   !.workers[w] = [pc |-> "awaiting", index |-> index],
                   !.claimed[index + 1] = @ + 1]

\* Promise.all: resolves once every worker function has returned.
MwcSettle(d) ==
    IF d.settled = "pending" /\ \A w \in DOMAIN d.workers : d.workers[w].pc = "returned"
    THEN [d EXCEPT !.settled = "resolved"]
    ELSE d

RECURSIVE MwcStartWorkers(_, _)
\* Array.from({length: workerCount}, async () => ...): each worker function
\* runs synchronously up to its first await, in order.
MwcStartWorkers(d, w) ==
    IF w > Len(d.workers) THEN d ELSE MwcStartWorkers(MwcClaim(d, w), w + 1)

\* Mutant of MwcWorkerCount: one worker per item, whatever the budget.
MwcWorkerCount_PerItem(items, concurrency) == Max(1, Len(items))

\* const workerCount = Math.max(1, Math.min(concurrency, items.length))
MwcWorkerCount(items, concurrency) == Max(1, Min(concurrency, Len(items)))

MwcStart(items, concurrency) ==
    LET workerCount == MwcWorkerCount(items, concurrency)
        d0 == [items |-> items,
               results |-> [i \in 1..Len(items) |-> {}],
               nextIndex |-> 0,
               workers |-> [w \in 1..workerCount |-> [pc |-> "new", index |-> 0]],
               claimed |-> [i \in 1..Len(items) |-> 0],
               settled |-> "pending"]
    IN MwcSettle(MwcStartWorkers(d0, 1))

\* Mutant of MwcStore: the slot is addressed by the shared cursor, not by the
\* index the worker captured.
MwcStore_AtCursor(d, w, value) ==
    [d EXCEPT !.results[Min(d.nextIndex, Len(d.items))] = {value}]

\* The store of a fulfilled mapper promise: results[index] = value.
MwcStore(d, w, value) ==
    [d EXCEPT !.results[d.workers[w].index + 1] = {value}]

\* The mapper promise of worker w fulfils with `value`: the result is stored at
\* the index the worker holds, and the worker goes round its loop again.
MwcFulfil(d, w, value) == MwcSettle(MwcClaim(MwcStore(d, w, value), w))

\* The mapper promise of worker w rejects: the await throws inside the worker's
\* async function, which has no try/catch, so the worker's promise rejects and
\* Promise.all rejects with it (unless already settled). Nothing is stored.
MwcReject(d, w) ==
    LET d1 == [d EXCEPT !.workers[w].pc = "threw"] IN
    IF d1.settled = "pending" THEN [d1 EXCEPT !.settled = "rejected"] ELSE d1

MwcAwaiting(d) == {w \in DOMAIN d.workers : d.workers[w].pc = "awaiting"}

MwcItemOf(d, w) == d.items[d.workers[w].index + 1]

\* ---------------------------------------------------------------------
\* Provider error messages.  The classifier and the humanizer only test an
\* (already lowercased) message against fixed patterns, so a message is
\* modelled by the set of pattern phrases that occur in it, the seconds
\* that /retry in\s*([\d.]+)s/ would capture, rounded up (-1: no match),
\* and a label telling messages apart.  `num` is the number a message built
\* by the code itself quotes (a status, a count) and 0 otherwise.
\* ---------------------------------------------------------------------
AuthPhrases ==
    {"api key", "unauthorized", "forbidden", "permission denied", "billing account"}

TransientPhrases ==
    {"not found", "not supported", "unsupported", "quota exceeded", "rate limit",
     "resource exhausted", "limit: 0", "retry in"}

ThrottlePhrases == {"quota exceeded", "rate limit", "resource exhausted"}

Phrases == AuthPhrases \union TransientPhrases

Message(text, phrases, retrySec) ==
    [text |-> text, num |-> 0, phrases |-> phrases, retrySec |-> retrySec]

\* a message quoting a number (a status, a count) and matching no pattern
NumberedMessage(text, n) ==
    [text |-> text, num |-> n, phrases |-> {}, retrySec |-> -1]

\* the empty string
NoMessage == Message("", {}, -1)

\* `Gemini API request failed (${response.status}).`
DefaultGeminiMessage(status) == NumberedMessage("Gemini API request failed", status)

\* parseRetrySeconds: null is -1
parseRetrySeconds(errorMessage) ==
    IF "retry in" \in errorMessage.phrases THEN errorMessage.retrySec ELSE -1

\* Mutant of isRetryableModelError: the status test comes first.
isRetryableModelError_StatusFirst(status, errorMessage) ==
    IF status >= 500 THEN TRUE
    ELSE IF errorMessage.phrases \intersect AuthPhrases # {} THEN FALSE
    ELSE errorMessage.phrases \intersect TransientPhrases # {}

isRetryableModelError(status, errorMessage) ==
    IF errorMessage.phrases \intersect AuthPhrases # {} THEN FALSE
    ELSE IF status >= 500 THEN TRUE
    ELSE errorMessage.phrases \intersect TransientPhrases # {}

\* humanizeGeminiError: every branch ends in `Tried models: ${triedModels.join(', ')}.`
humanizeGeminiError(errorMessage, triedModels) ==
    IF "limit: 0" \in errorMessage.phrases
    THEN [form |-> "entitlement", detail |-> <<>>, retrySec |-> -1, tried |-> triedModels]
    ELSE IF errorMessage.phrases \intersect ThrottlePhrases # {}
    THEN [form |-> "throttled", detail |-> <<>>,
          retrySec |-> IF parseRetrySeconds(errorMessage) > 0
                       THEN parseRetrySeconds(errorMessage) ELSE -1,
          tried |-> triedModels]
    ELSE [form |-> "verbatim",
          detail |-> IF errorMessage = NoMessage
                     THEN <<Message("Unknown Gemini API error.", {}, -1)>>
                     ELSE <<errorMessage>>,
          retrySec |-> -1,
          tried |-> triedModels]

\* ---------------------------------------------------------------------
\* Strings are sequences of one-character strings.  JavaScript values that
\* reach the sanitizers are a string, undefined, or some other (truthy)
\* non-string such as a number.
\* ---------------------------------------------------------------------
Letters == {"a", "b", "c", "d", "g", "h", "o", "r", "t", "w", "C"}

Digits == {"1", "7"}

WhitespaceChars == {" ", "\t"}

WordPunctuation == {"'", "-"}

OtherChars == {"!", "_"}

Str(chars) == [t |-> "string", s |-> chars]

Undefined == [t |-> "undefined", s |-> <<>>]

NumberValue == [t |-> "number", s |-> <<>>]

Truthy(v) == v.t = "number" \/ (v.t = "string" /\ v.s # <<>>)

\* a || b
OrElse(a, b) == IF Truthy(a) THEN a ELSE b

RECURSIVE TrimStart(_)
TrimStart(s) ==
    IF s # <<>> /\ Head(s) \in WhitespaceChars THEN TrimStart(Tail(s)) ELSE s

RECURSIVE TrimEnd(_)
TrimEnd(s) ==
    IF s # <<>> /\ s[Len(s)] \in WhitespaceChars
    THEN TrimEnd(SubSeq(s, 1, Len(s) - 1)) ELSE s

\* String.prototype.trim
Trim(s) == TrimEnd(TrimStart(s))

RECURSIVE CollapseWhitespace(_)
\* .replace(/\s+/g, ' ')
CollapseWhitespace(s) ==
    IF s = <<>> THEN <<>>
    ELSE IF Head(s) \in WhitespaceChars
    THEN <<" ">> \o CollapseWhitespace(TrimStart(s))
    ELSE <<Head(s)>> \o CollapseWhitespace(Tail(s))

IsDigitOrUnderscore(c) == c \in Digits \union {"_"}

IsWordChar(c) == c \in Letters \union WhitespaceChars \union WordPunctuation

FallbackWord == <<"w", "o", "r", "d">>

\* cleanWord (part_003:178-190, same text in App.tsx:154-166); returns a string
cleanWord(rawWord) ==
    IF rawWord.t # "string" THEN FallbackWord
    ELSE LET trimmed == Trim(rawWord.s)
             noDigits == SelectSeq(trimmed, LAMBDA c : ~IsDigitOrUnderscore(c))
             onlyWord == SelectSeq(noDigits, IsWordChar)
             cleaned == CollapseWhitespace(onlyWord)
         IN IF cleaned = <<>> THEN FallbackWord ELSE cleaned

\* ---------------------------------------------------------------------
\* normalizeWordWorksheet (part_003:192-234).  A parsed JSON candidate is
\*   [t: "object" | "null" | "number", title, instruction, language: value,
\*    pairsIsArray: BOOLEAN, pairs: sequence of entries]
\* and an entry is [t, rhymeSound, leftWord, left, rightWord, right], where
\* left / right stand for entry.left.word / entry.right.word.
\* The result is [threw |-> <<message>>, value |-> <<>>] or
\* [threw |-> <<>>, value |-> <<worksheet>>].
\* ---------------------------------------------------------------------
DigitChar(n) == CASE n = 0 -> "0" [] n = 1 -> "1" [] n = 2 -> "2" [] n = 3 -> "3"
                  [] n = 4 -> "4" [] n = 5 -> "5" [] n = 6 -> "6" [] OTHER -> "7"

\* typeof v === 'string' && v.trim() ? v.trim() : fallback
TrimmedOr(v, fallback) ==
    IF v.t = "string" /\ Trim(v.s) # <<>> THEN Trim(v.s) ELSE fallback

\* const pair = entry || {}
EntryField(entry, f) == IF entry.t = "object" THEN entry[f] ELSE Undefined

\* rawPairs.slice(0, pairCount)
SliceFirst(rawPairs, n) == SubSeq(rawPairs, 1, Min(n, Len(rawPairs)))

normalizeWordWorksheet(candidate, language, count) ==
    IF candidate.t # "object"
    THEN [threw |-> <<Message("Model returned an unexpected worksheet format.", {}, -1)>>,
          value |-> <<>>]
    ELSE
    LET rawPairs == IF candidate.pairsIsArray THEN candidate.pairs ELSE <<>> IN
    IF Len(rawPairs) < count
    THEN [threw |-> <<NumberedMessage("Model returned only N pairs. Try regenerate.",
                                      Len(rawPairs))>>,
          value |-> <<>>]
    ELSE
    LET kept == SliceFirst(rawPairs, count)
        pairs == [index \in 1..Len(kept) |->
                    LET pair == kept[index] IN
                    [rhymeSound |-> TrimmedOr(EntryField(pair, "rhymeSound"),
                                              <<"p", "a", "i", "r", " ", DigitChar(index)>>),
                     left |-> [word |-> cleanWord(OrElse(EntryField(pair, "leftWord"),
                                                         EntryField(pair, "left")))],
                     right |-> [word |-> cleanWord(OrElse(EntryField(pair, "rightWord"),
                                                          EntryField(pair, "right")))]]]
    IN [threw |-> <<>>,
        value |-> <<[title |-> TrimmedOr(candidate.title,
                                         language \o <<" ", "Rhyming Match Sheet">>),
                     instruction |-> TrimmedOr(candidate.instruction,
                                         <<"Draw a line between words that rhyme.">>),
                     language |-> TrimmedOr(candidate.language, language),
                     pairs |-> pairs]>>]

\* ---------------------------------------------------------------------
\* generateWordWorksheet (part_003:456-517).  What callGeminiModel returned:
\*   [ok, status, error: <<>> or <<payload.error.message>>,
\*    text: "" (no text part) | "prose" (no JSON in it) | "badjson" | "json",
\*    json: the candidate a "json" text parses to]
\* ---------------------------------------------------------------------
NoJson ==
    [t |-> "null", title |-> Undefined, instruction |-> Undefined, language |-> Undefined,
     pairsIsArray |-> FALSE, pairs |-> <<>>]

ErrorResponse(status, message) ==
    [ok |-> FALSE, status |-> status, error |-> message, text |-> "", json |-> NoJson]

OkResponse(text, json) ==
    [ok |-> TRUE, status |-> 200, error |-> <<>>, text |-> text, json |-> json]

\* payload && payload.error && payload.error.message ? ... : `Gemini API request failed (...)`
GeminiErrorMessage(resp) ==
    IF resp.error # <<>> /\ resp.error[1] # NoMessage THEN resp.error[1]
    ELSE DefaultGeminiMessage(resp.status)

\* lines 497-513: extractTextFromPayload, extractJsonText, JSON.parse, normalize
ParseWorksheetResponse(resp, language, count) ==
    CASE resp.text = "" ->
            [threw |-> <<Message("Gemini did not return worksheet content.", {}, -1)>>,
             value |-> <<>>]
      [] resp.text = "prose" ->
            [threw |-> <<Message("Could not parse JSON from the model response.", {}, -1)>>,
             value |-> <<>>]
      [] resp.text = "badjson" ->
            [threw |-> <<Message("SyntaxError", {}, -1)>>, value |-> <<>>]
      [] OTHER -> normalizeWordWorksheet(resp.json, language, count)

\* Mutant of TextErrorDecision: a fatal error moves on to the next candidate too.
TextErrorDecision_AlwaysContinue(status, errorMessage) == "continue"

\* lines 490-494: continue, or throw
TextErrorDecision(status, errorMessage) ==
    IF isRetryableModelError(status, errorMessage) THEN "continue" ELSE "throw"

\* Mutant of TextUsedModel: the first candidate is reported.
TextUsedModel_First(candidates, modelName) == candidates[1]

\* line 508: usedModel: modelName
TextUsedModel(candidates, modelName) == modelName

\* Mutant of TextRemember: the first error is kept.
TextRemember_First(previous, current) == IF previous = NoMessage THEN current ELSE previous

\* lines 487, 511: lastErrorMessage = ...
TextRemember(previous, current) == current

\* line 494: the models named by the error thrown on a fatal response
TextFatalTried(called, modelName) == <<modelName>>

\* ---------------------------------------------------------------------
\* Model names and the candidate list (part_003:13-35, 902-906).  A model
\* name is [pad, prefixes, name]: `name` preceded by `prefixes` copies of
\* "models/", with surrounding whitespace when `pad`; the empty string has
\* no prefix and name "".
\* ---------------------------------------------------------------------
ModelName(prefixes, name) == [pad |-> FALSE, prefixes |-> prefixes, name |-> name]

EmptyName == ModelName(0, "")

normalizeModelName(rawModelName) ==
    LET trimmed == [rawModelName EXCEPT !.pad = FALSE] IN
    IF trimmed = EmptyName THEN EmptyName
    ELSE IF trimmed.prefixes > 0 THEN [trimmed EXCEPT !.prefixes = @ - 1]
    ELSE trimmed

RECURSIVE Dedupe(_)
\* Array.from(new Set(items)): first occurrences, in order
Dedupe(items) ==
    IF items = <<>> THEN <<>>
    ELSE LET rest == Dedupe(SubSeq(items, 1, Len(items) - 1))
             last == items[Len(items)]
         IN IF last \in Range(rest) THEN rest ELSE Append(rest, last)

\* Mutant of unique: repeated names are kept.
unique_Repeating(items) == SelectSeq(items, LAMBDA m : m # EmptyName)

\* unique (part_003:33-35) of model names: items.filter(Boolean) drops ''
unique(items) == Dedupe(SelectSeq(items, LAMBDA m : m # EmptyName))

\* unique (part_003:33-35) of strings
uniqueStrings(items) == Dedupe(SelectSeq(items, LAMBDA s : s # <<>>))

TEXT_MODEL_FALLBACK_ORDER ==
    <<ModelName(0, "gemini-3.1-pro-preview"), ModelName(0, "gemini-2.5-pro"),
      ModelName(0, "gemini-2.5-flash")>>

\* process.env.GEMINI_MODEL || 'gemini-3.1-pro-preview'
DEFAULT_TEXT_MODEL(env) ==
    IF env = EmptyName THEN ModelName(0, "gemini-3.1-pro-preview") ELSE env

\* lines 902-906
TextModelCandidates(bodyModel, env) ==
    LET requestedTextModel == normalizeModelName(bodyModel)
        default == normalizeModelName(DEFAULT_TEXT_MODEL(env))
        first == IF requestedTextModel # EmptyName THEN requestedTextModel
                 ELSE IF default # EmptyName THEN default
                 ELSE ModelName(0, "gemini-3.1-pro-preview")
    IN unique(<<first>> \o TEXT_MODEL_FALLBACK_ORDER)

\* ---------------------------------------------------------------------
\* Sample inputs: request bodies, environment, provider responses.
\* ---------------------------------------------------------------------
BodyModelSamples ==
    {EmptyName, ModelName(0, "gpt-4.1-mini"), ModelName(1, "gemini-2.5-pro"),
     [pad |-> TRUE, prefixes |-> 0, name |-> "gemini-2.5-flash"]}

EnvTextModelSamples == {EmptyName, ModelName(0, "gemini-2.5-flash")}

PairCountOptions == {3, 4, 5}

English == <<"English">>

Entry(rhymeSound, leftWord, left, rightWord, right) ==
    [t |-> "object", rhymeSound |-> rhymeSound, leftWord |-> leftWord, left |-> left,
     rightWord |-> rightWord, right |-> right]

NullEntry ==
    [t |-> "null", rhymeSound |-> Undefined, leftWord |-> Undefined, left |-> Undefined,
     rightWord |-> Undefined, right |-> Undefined]

\* what a model may send as its pairs: clean words, words to clean, a word used
\* in two pairs, the nested {left: {word}} shape, a null entry, a non-string word
SampleEntries ==
    <<Entry(Str(<<"a", "t">>), Str(<<"c", "a", "t">>), Undefined,
            Str(<<"h", "a", "t">>), Undefined),
      Entry(Undefined, Str(<<" ", "d", "o", "g", "1">>), Undefined,
            Str(<<"h", "o", "g", "!">>), Undefined),
      Entry(Str(<<" ", "a", "t", " ">>), Str(<<"c", "a", "t">>), Undefined,
            Str(<<"b", "a", "t">>), Undefined),
      Entry(Str(<<"a", "t">>), Undefined, Str(<<"r", "a", "t">>),
            Str(<<>>), Str(<<"b", "a", "t">>)),
      NullEntry,
      Entry(Str(<<"o", "t">>), Str(<<"c", "o", "t">>), Undefined,
            NumberValue, Undefined),
      Entry(Str(<<"o", "g">>), Str(<<"d", "o", "g">>), Undefined,
            Str(<<"h", "o", "g">>), Undefined)>>

WorksheetJson(n) ==
    [t |-> "object", title |-> Str(<<" ", "Rhymes", " ">>), instruction |-> Undefined,
     language |-> Str(<<>>), pairsIsArray |-> TRUE, pairs |-> SubSeq(SampleEntries, 1, n)]

NumberJson == [NoJson EXCEPT !.t = "number"]

ThrottledMessage == Message("Quota exceeded, retry in 12.4s", {"quota exceeded", "retry in"}, 13)

NotFoundMessage == Message("models/x is not found", {"not found"}, -1)

EntitlementMessage == Message("Quota exceeded, limit: 0", {"quota exceeded", "limit: 0"}, -1)

ApiKeyMessage == Message("API key not valid", {"api key"}, -1)

PermissionMessage == Message("Permission denied", {"permission denied"}, -1)

InvalidMessage == Message("Invalid argument", {}, -1)

GeminiErrorResponses ==
    {ErrorResponse(429, <<ThrottledMessage>>), ErrorResponse(404, <<NotFoundMessage>>),
     ErrorResponse(429, <<EntitlementMessage>>), ErrorResponse(400, <<ApiKeyMessage>>),
     ErrorResponse(503, <<PermissionMessage>>), ErrorResponse(400, <<InvalidMessage>>),
     ErrorResponse(500, <<>>), ErrorResponse(403, <<>>)}

TextResponses(count) ==
    GeminiErrorResponses \union
    {OkResponse("", NoJson), OkResponse("badjson", NoJson), OkResponse("json", NumberJson),
     OkResponse("json", WorksheetJson(count - 1)), OkResponse("json", WorksheetJson(count)),
     OkResponse("json", WorksheetJson(count + 1))}

StatusSamples == {200, 400, 403, 404, 429, 499, 500, 503}

ClassifierMessages ==
    {Message("m", p, -1) : p \in {q \in SUBSET Phrases : Cardinality(q) <= MaxPhrases}}

\* ---------------------------------------------------------------------
\* Initial values of each component
\* ---------------------------------------------------------------------
IdleDispatch ==
    /\ dItems = <<>>
    /\ dConcurrency = 1
    /\ dThrows = {}
    /\ mwc = MwcNotCalled

IdleClassify ==
    /\ clsStatus = 200
    /\ clsMessage = NoMessage
    /\ clsResult = <<>>

TextNotCalled ==
    /\ tPc = "notCalled"
    /\ tNext = 1
    /\ tCalls = <<>>
    /\ tResponses = <<>>
    /\ lastErrorMessage = NoMessage
    /\ lastStatus = 500
    /\ tReturn = <<>>
    /\ tError = <<>>

IdleText ==
    /\ candidateModels = TEXT_MODEL_FALLBACK_ORDER
    /\ pairCount = 5
    /\ TextNotCalled

HandlerNotCalled ==
    /\ hPc = "idle"
    /\ hWorksheet = <<>>
    /\ hUniqueWords = <<>>
    /\ hJobs = <<>>
    /\ hImageCalls = <<>>
    /\ hResponse = <<>>

IdleHandler ==
    /\ hBody = [model |-> EmptyName,
                pairCount |-> [t |-> "number", num |-> [finite |-> TRUE, n |-> 5, tenths |-> 0]],
                deferImages |-> FALSE]
    /\ hEnv = [GEMINI_MODEL |-> EmptyName, GEMINI_IMAGE_MODEL |-> EmptyName,
               GEMINI_IMAGE_ATTEMPTS |-> [finite |-> TRUE, n |-> 1, tenths |-> 0],
               GEMINI_IMAGE_CONCURRENCY |-> [finite |-> TRUE, n |-> 4, tenths |-> 0]]
    /\ HandlerNotCalled

\* lines 411-423: the state of a freshly mounted App
NoWarning == [kind |-> "", done |-> 0, total |-> 0]

IdleApp ==
    /\ generationRunRef = 0
    /\ worksheet = <<>>
    /\ cards = <<>>
    /\ isLoading = FALSE
    /\ isHydratingImages = FALSE
    /\ error = <<>>
    /\ warning = NoWarning
    /\ warningDetails = <<>>
    /\ runs = <<>>
    /\ refreshingCardId = <<>>
    /\ refreshCall = <<>>
    /\ refreshCount = 0

NormalizeNotCalled == normServer = <<>> /\ normClient = <<>>

CleanWordNotCalled == wordCleaned = <<>> /\ wordRecleaned = <<>>

SanitizeNotCalled == urlSanitized = <<>> /\ urlResanitized = <<>>

IdleNormalize == normCandidate = NoJson /\ normCount = 5 /\ NormalizeNotCalled

IdleCleanWord == wordRaw = Undefined /\ CleanWordNotCalled

IdleSanitize == urlRaw = <<>> /\ SanitizeNotCalled

IdleFunctions == IdleNormalize /\ IdleCleanWord /\ IdleSanitize

SvgNotCalled == svgSanitized = <<>>

IdleSvg == svgRaw = [t |-> "undefined", nodes |-> <<>>] /\ SvgNotCalled

AltWordNotCalled == altPc = "notCalled" /\ altNext = 1 /\ altResponses = <<>> /\ altReturn = <<>>

IdleAltWord == altCurrentWord = Undefined /\ altCandidates = <<>> /\ AltWordNotCalled

RequestNotParsed == reqParsed = <<>>

IdleRequest == reqBody = <<>> /\ reqEnv = <<>> /\ RequestNotParsed

WalkNotCalled == walkPc = "notCalled" /\ walkLocals = <<>> /\ walkCalls = <<>> /\ walkReturn = <<>>

IdleWalk == walkSingleWord = FALSE /\ walkEnv = <<>> /\ WalkNotCalled

\* App.tsx:413, 418
TopicNotCalled ==
    /\ isRandomizingTopic = FALSE
    /\ topicCount = 0
    /\ topicRequest = <<>>
    /\ topicProvider = <<>>
    /\ topicResponse = <<>>

IdleTopic == topic = <<"a", "n", "i", "m", "a", "l", "s">> /\ TopicNotCalled

IdleFlows == IdleSvg /\ IdleAltWord /\ IdleRequest /\ IdleWalk /\ IdleTopic

\* ---------------------------------------------------------------------
\* SpecDispatch: one call of mapWithConcurrency with a mapper that fulfils
\* with a value naming its item, or rejects for the items in dThrows.
\* ---------------------------------------------------------------------
ItemName(i) == 100 + i

JobValue(item) == [ok |-> TRUE, of |-> item]

InitDispatch ==
    /\ \E n \in 0..MaxItems : dItems = [i \in 1..n |-> ItemName(i)]
    /\ dConcurrency \in 1..MaxConcurrency
    /\ dThrows \in {t \in SUBSET Range(dItems) : Cardinality(t) <= MaxThrowing}
    /\ mwc = MwcNotCalled
    /\ IdleClassify /\ IdleText /\ IdleHandler /\ IdleApp /\ IdleFunctions /\ IdleFlows

DispatchCall ==
    /\ mwc.settled = "notCalled"
    /\ mwc' = MwcStart(dItems, dConcurrency)
    /\ UNCHANGED <<dItems, dConcurrency, dThrows, classifyVars, textVars, handlerVars, appVars>>
    /\ UNCHANGED functionVars
    /\ UNCHANGED flowVars

JobFulfil(w) ==
    /\ w \in MwcAwaiting(mwc)
    /\ MwcItemOf(mwc, w) \notin dThrows
    /\ mwc' = MwcFulfil(mwc, w, JobValue(MwcItemOf(mwc, w)))
    /\ UNCHANGED <<dItems, dConcurrency, dThrows, classifyVars, textVars, handlerVars, appVars>>
    /\ UNCHANGED functionVars
    /\ UNCHANGED flowVars

JobReject(w) ==
    /\ w \in MwcAwaiting(mwc)
    /\ MwcItemOf(mwc, w) \in dThrows
    /\ mwc' = MwcReject(mwc, w)
    /\ UNCHANGED <<dItems, dConcurrency, dThrows, classifyVars, textVars, handlerVars, appVars>>
    /\ UNCHANGED functionVars
    /\ UNCHANGED flowVars

NextDispatch ==
    \/ DispatchCall
    \/ \E w \in DOMAIN mwc.workers : JobFulfil(w)
    \/ \E w \in DOMAIN mwc.workers : JobReject(w)

SpecDispatch == InitDispatch /\ [][NextDispatch]_vars

\* ---------------------------------------------------------------------
\* SpecClassify: isRetryableModelError applied to a status and a message
\* ---------------------------------------------------------------------
InitClassify ==
    /\ clsStatus \in StatusSamples
    /\ clsMessage \in ClassifierMessages
    /\ clsResult = <<>>
    /\ IdleDispatch /\ IdleText /\ IdleHandler /\ IdleApp /\ IdleFunctions /\ IdleFlows

Classify ==
    /\ clsResult = <<>>
    /\ clsResult' = <<isRetryableModelError(clsStatus, clsMessage)>>
    /\ UNCHANGED <<clsStatus, clsMessage, dispatchVars, textVars, handlerVars, appVars>>
    /\ UNCHANGED functionVars
    /\ UNCHANGED flowVars

NextClassify == Classify

SpecClassify == InitClassify /\ [][NextClassify]_vars

\* ---------------------------------------------------------------------
\* SpecText: one call of generateWordWorksheet; each loop turn is one step
\* (the call, its response, and what the code does with it up to the next
\* await or the end of the function).
\* ---------------------------------------------------------------------
InitText ==
    /\ candidateModels \in {TextModelCandidates(b, e) :
                               b \in BodyModelSamples, e \in EnvTextModelSamples}
    /\ pairCount \in PairCountOptions
    /\ TextNotCalled
    /\ IdleDispatch /\ IdleClassify /\ IdleHandler /\ IdleApp /\ IdleFunctions /\ IdleFlows

\* the call up to its first await: lines 457-461
TextEnter ==
    /\ tPc = "notCalled"
    /\ tPc' = "loop"
    /\ tNext' = 1
    /\ lastErrorMessage' = NoMessage
    /\ lastStatus' = 500
    /\ UNCHANGED <<tCalls, tResponses, tReturn, tError>>

TextCall ==
    /\ TextEnter
    /\ UNCHANGED <<candidateModels, pairCount, dispatchVars, classifyVars, handlerVars, appVars>>
    /\ UNCHANGED functionVars
    /\ UNCHANGED flowVars

\* Mutant of TextContinue: the failure ends the walk at this candidate.
TextContinue_Throw(message) ==
    /\ tPc' = "threw"
    /\ tError' = <<humanizeGeminiError(message, candidateModels)>>
    /\ UNCHANGED <<tNext, tReturn>>

\* `continue`, or the end of the for loop followed by line 516
TextContinue(message) ==
    IF tNext < Len(candidateModels)
    THEN /\ tPc' = "loop"
         /\ tNext' = tNext + 1
         /\ UNCHANGED <<tReturn, tError>>
    ELSE /\ tPc' = "threw"
         /\ tError' = <<humanizeGeminiError(message, candidateModels)>>
         /\ UNCHANGED <<tNext, tReturn>>

\* one turn of the for loop, from the response of the awaited call on
TextStep(resp) ==
    /\ tPc = "loop"
    /\ LET modelName == candidateModels[tNext] IN
       /\ tCalls' = Append(tCalls, modelName)
       /\ tResponses' = Append(tResponses, resp)
       /\ IF ~resp.ok
          THEN LET errorMessage == GeminiErrorMessage(resp) IN
               /\ lastErrorMessage' = TextRemember(lastErrorMessage, errorMessage)
               /\ lastStatus' = resp.status
               /\ IF TextErrorDecision(resp.status, errorMessage) = "continue"
                  THEN TextContinue(lastErrorMessage')
                  ELSE /\ tPc' = "threw"
                       /\ tError' = <<humanizeGeminiError(errorMessage,
                                                          TextFatalTried(tCalls', modelName))>>
                       /\ UNCHANGED <<tNext, tReturn>>
          ELSE LET parsed == ParseWorksheetResponse(resp, English, pairCount) IN
               IF parsed.threw = <<>>
               THEN /\ tPc' = "returned"
                    /\ tReturn' = <<[worksheet |-> parsed.value[1],
                                     usedModel |-> TextUsedModel(candidateModels, modelName)]>>
                    /\ UNCHANGED <<tNext, tError, lastErrorMessage, lastStatus>>
               ELSE /\ lastErrorMessage' = TextRemember(lastErrorMessage, parsed.threw[1])
                    /\ lastStatus' = 502
                    /\ TextContinue(lastErrorMessage')

TextTurn(resp) ==
    /\ TextStep(resp)
    /\ UNCHANGED <<candidateModels, pairCount, dispatchVars, classifyVars, handlerVars, appVars>>
    /\ UNCHANGED functionVars
    /\ UNCHANGED flowVars

NextText ==
    \/ TextCall
    \/ \E resp \in TextResponses(pairCount) : TextTurn(resp)

SpecText == InitText /\ [][NextText]_vars

\* ---------------------------------------------------------------------
\* Image generation for one word (part_003:395-430, 623-705).
\* A URL string is [scheme, mime, data]; the empty string is EmptyUrl.
\* What callGeminiModel returned for an image request:
\*   [ok, status, error: <<>> or <<payload.error.message>>,
\*    parts: the parts of payload.candidates, each
\*           [kind: "inline" | "file" | "text", mimeType, data]]
\* The data of an inline part and the uri of a file part are sequences of
\* characters, the text of a text part is one string.
\* ---------------------------------------------------------------------
EmptyUrl == [lead |-> <<>>, scheme |-> "", mime |-> "", data |-> <<>>]

DataUrl(mimeType, data) ==
    [lead |-> <<>>, scheme |-> "data", mime |-> mimeType, data |-> data]

FileUri(uri) == [lead |-> <<>>, scheme |-> "https", mime |-> "", data |-> uri]

\* String(mimeType).startsWith('image/')
MimeIsImage(mimeType) == mimeType \in {"image/png", "image/jpeg", "image/webp"}

InlinePart(mimeType, data) == [kind |-> "inline", mimeType |-> mimeType, data |-> data]

FilePart(mimeType, uri) == [kind |-> "file", mimeType |-> mimeType, data |-> uri]

TextPart(text) == [kind |-> "text", mimeType |-> "", data |-> text]

\* extractImageDataFromPayload: null is <<>>
extractImageDataFromPayload(parts) ==
    LET inline == SelectSeq(parts, LAMBDA p :
                      /\ p.kind = "inline" /\ p.data # <<>>
                      /\ MimeIsImage(IF p.mimeType = "" THEN "image/png" ELSE p.mimeType))
        files == SelectSeq(parts, LAMBDA p :
                      p.kind = "file" /\ p.data # <<>> /\ MimeIsImage(p.mimeType))
    IN IF inline # <<>>
       THEN LET mimeType == IF inline[1].mimeType = "" THEN "image/png"
                            ELSE inline[1].mimeType
            IN <<[mimeType |-> mimeType, dataUrl |-> DataUrl(mimeType, inline[1].data)]>>
       ELSE IF files # <<>>
       THEN <<[mimeType |-> files[1].mimeType, dataUrl |-> FileUri(files[1].data)]>>
       ELSE <<>>

\* extractTextFromPayload: the text parts joined, '' is <<>>
extractTextFromPayload(parts) ==
    LET texts == SelectSeq(parts, LAMBDA p : p.kind = "text" /\ p.data # "")
    IN IF texts = <<>> THEN <<>> ELSE <<texts[1].data>>

ImageErrorResponse(status, message) ==
    [ok |-> FALSE, status |-> status, error |-> message, parts |-> <<>>]

ImageOkResponse(parts) == [ok |-> TRUE, status |-> 200, error |-> <<>>, parts |-> parts]

\* lines 660-662
GeminiImageErrorMessage(resp) ==
    IF resp.error # <<>> /\ resp.error[1] # NoMessage THEN resp.error[1]
    ELSE NumberedMessage("Gemini image request failed", resp.status)

\* lines 632-634: the locals of generateWordImageWithGemini before its first
\* call; `model` indexes candidateModels from 1, `attempt` counts from 0
ImageWalkStart ==
    [model |-> 1, attempt |-> 0, lastErrorMessage |-> NoMessage,
     lastNoImageReason |-> <<>>, attemptErrors |-> <<>>]

\* attemptErrors.slice(-n)
SliceLast(s, n) == SubSeq(s, Max(1, Len(s) - n + 1), Len(s))

\* what a call of generateWordImage resolves to
ImageFailure(message, attemptErrors) ==
    [imageDataUrl |-> EmptyUrl, mimeType |-> "", usedModel |-> EmptyName,
     error |-> <<message>>, debugAttempts |-> SliceLast(attemptErrors, 6)]

ImageSuccess(image, modelName, attemptErrors) ==
    [imageDataUrl |-> image.dataUrl, mimeType |-> image.mimeType, usedModel |-> modelName,
     error |-> <<>>, debugAttempts |-> SliceLast(attemptErrors, 6)]

\* lines 696-704
ImageExhausted(walk) ==
    ImageFailure(
        IF walk.lastErrorMessage # NoMessage THEN walk.lastErrorMessage
        ELSE IF walk.lastNoImageReason # <<>>
        THEN Message(walk.lastNoImageReason[1], {}, -1)
        ELSE IF Len(walk.attemptErrors) > 0
        THEN NumberedMessage("attemptErrors.slice(-3).join",
                             Len(SliceLast(walk.attemptErrors, 3)))
        ELSE Message("Model returned no image data for this word.", {}, -1),
        walk.attemptErrors)

\* Mutant of ImageErrorDecision: an error that is not retryable is thrown.
ImageErrorDecision_Throw(status, errorMessage) ==
    IF isRetryableModelError(status, errorMessage) THEN "continue" ELSE "throw"

\* lines 667-671: continue, or return { error }
ImageErrorDecision(status, errorMessage) ==
    IF isRetryableModelError(status, errorMessage) THEN "continue" ELSE "return"

\* Mutant of ImageAdvance: the walk goes straight to the next model.
ImageAdvance_NextModel(walk, candidates, maxAttemptsPerModel) ==
    IF walk.model < Len(candidates)
    THEN [kind |-> "await", walk |-> [walk EXCEPT !.model = @ + 1, !.attempt = 0],
          image |-> ImageExhausted(walk)]
    ELSE [kind |-> "return", walk |-> walk, image |-> ImageExhausted(walk)]

\* `continue` or the end of the inner loop body: the next attempt, the next
\* model, or the end of both loops
ImageAdvance(walk, candidates, maxAttemptsPerModel) ==
    IF walk.attempt + 1 < maxAttemptsPerModel
    THEN [kind |-> "await", walk |-> [walk EXCEPT !.attempt = @ + 1],
          image |-> ImageExhausted(walk)]
    ELSE IF walk.model < Len(candidates)
    THEN [kind |-> "await", walk |-> [walk EXCEPT !.model = @ + 1, !.attempt = 0],
          image |-> ImageExhausted(walk)]
    ELSE [kind |-> "return", walk |-> walk, image |-> ImageExhausted(walk)]

\* generateWordImageWithGemini from the response of one awaited call to the
\* next await ("await"), its return ("return") or a throw ("throw")
ImageTurn(walk, resp, candidates, maxAttemptsPerModel) ==
    LET modelName == candidates[walk.model] IN
    IF ~resp.ok
    THEN LET errorMessage == GeminiImageErrorMessage(resp)
             noted == [walk EXCEPT
                         !.lastErrorMessage = errorMessage,
                         !.attemptErrors = Append(@, [model |-> modelName,
                                                      attempt |-> walk.attempt + 1,
                                                      what |-> "error"])]
             decision == ImageErrorDecision(resp.status, errorMessage)
         IN IF decision = "continue"
            THEN ImageAdvance(noted, candidates, maxAttemptsPerModel)
            ELSE [kind |-> decision, walk |-> noted,
                  image |-> ImageFailure(errorMessage, noted.attemptErrors)]
    ELSE LET image == extractImageDataFromPayload(resp.parts) IN
         IF image # <<>> /\ image[1].dataUrl # EmptyUrl
         THEN [kind |-> "return", walk |-> walk,
               image |-> ImageSuccess(image[1], modelName, walk.attemptErrors)]
         ELSE LET textReason == extractTextFromPayload(resp.parts)
                  noted == [walk EXCEPT
                              !.lastNoImageReason =
                                  IF textReason # <<>> THEN textReason ELSE @,
                              !.attemptErrors = Append(@, [model |-> modelName,
                                                           attempt |-> walk.attempt + 1,
                                                           what |-> IF textReason # <<>>
                                                                    THEN "text"
                                                                    ELSE "nodata"])]
              IN ImageAdvance(noted, candidates, maxAttemptsPerModel)

\* normalizeImageModelName (part_003:23-31)
normalizeImageModelName(rawModelName) ==
    LET normalized == normalizeModelName(rawModelName) IN
    IF normalized = ModelName(0, "gemini-2.5-flash-preview-image")
    THEN ModelName(0, "gemini-2.5-flash-image")
    ELSE IF normalized = ModelName(0, "gemini-3-pro-image")
    THEN ModelName(0, "gemini-3-pro-image-preview")
    ELSE normalized

\* process.env.GEMINI_IMAGE_MODEL || 'gemini-2.5-flash-image'
DEFAULT_IMAGE_MODEL(env) ==
    IF env = EmptyName THEN ModelName(0, "gemini-2.5-flash-image") ELSE env

\* lines 908-913
ImageModelCandidates(env) ==
    LET requestedImageModel == normalizeImageModelName(DEFAULT_IMAGE_MODEL(env)) IN
    unique(<<IF requestedImageModel # EmptyName THEN requestedImageModel
             ELSE ModelName(0, "gemini-2.5-flash-image"),
             ModelName(0, "gemini-2.5-flash-image")>>)

\* A JavaScript number is [finite, n, tenths]: the number n + tenths / 10 with
\* n an integer and tenths in 0..9, or NaN / an infinity (finite = FALSE).
Num(n) == [finite |-> TRUE, n |-> n, tenths |-> 0]

Fraction(n, tenths) == [finite |-> TRUE, n |-> n, tenths |-> tenths]

NaN == [finite |-> FALSE, n |-> 0, tenths |-> 0]

\* Math.floor
Floor(number) == number.n

\* Mutant of toBoundedInteger: the upper bound is not applied.
toBoundedInteger_NoMax(value, fallback, min, max) ==
    IF ~value.finite THEN fallback ELSE Max(min, Floor(value))

\* toBoundedInteger (part_003:66-74) of Number(value)
toBoundedInteger(value, fallback, min, max) ==
    IF ~value.finite THEN fallback ELSE Max(min, Min(max, Floor(value)))

\* A value of the request body is [t, num]: its type and what Number(value)
\* makes of it.
JsValue(t, num) == [t |-> t, num |-> num]

\* ---------------------------------------------------------------------
\* The handler's worksheet flow (part_003:816-1147) with IMAGE_PROVIDER
\* resolving to 'gemini' and GEMINI_API_KEY set.
\* ---------------------------------------------------------------------
\* Mutant of HandlerDefersImages: the flag of the body is ignored.
HandlerDefersImages_Never(body) == body.deferImages /\ ~body.deferImages

\* line 838: body.deferImages === true
HandlerDefersImages(body) == body.deferImages

\* Mutant of HandlerPairCount: any whole number is taken.
HandlerPairCount_Any(body) ==
    IF body.pairCount.num.finite THEN body.pairCount.num.n ELSE 5

\* line 835
HandlerLanguage(body) ==
    IF body.language.t = "string" /\ Trim(body.language.s) # <<>>
    THEN Trim(body.language.s) ELSE English

\* line 902: typeof body.model === 'string' ? body.model : ''
BodyModelName(body) == IF body.model.isString THEN body.model.name ELSE EmptyName

\* lines 839-840
HandlerPairCount(body) ==
    LET parsedPairCount == body.pairCount.num IN
    IF parsedPairCount.finite /\ parsedPairCount.tenths = 0 /\ parsedPairCount.n \in {3, 4, 5}
    THEN parsedPairCount.n ELSE 5

\* line 848
geminiImageAttempts(env) == toBoundedInteger(env.GEMINI_IMAGE_ATTEMPTS, 1, 1, 3)

\* line 849
geminiImageConcurrency(env) == toBoundedInteger(env.GEMINI_IMAGE_CONCURRENCY, 4, 1, 8)

\* worksheet.pairs.flatMap((pair) => [pair.left.word, pair.right.word])
PairWords(pairs) ==
    [i \in 1..(2 * Len(pairs)) |->
        IF i % 2 = 1 THEN pairs[(i + 1) \div 2].left.word ELSE pairs[i \div 2].right.word]

\* lines 1038-1040
HandlerUniqueWords(sheet) ==
    LET words == PairWords(sheet.pairs) IN
    uniqueStrings([i \in 1..Len(words) |-> cleanWord(Str(words[i]))])

\* the array mapWithConcurrency resolved to
ImageResults(d) == [i \in 1..Len(d.results) |-> CHOOSE v \in d.results[i] : TRUE]

\* Mutant of HasImage: a result counts as an image whatever it holds.
HasImage_Always(item) == item.image.error # <<>> \/ item.image.error = <<>>

\* line 1074: item && item.image && item.image.imageDataUrl
HasImage(item) == item.image.imageDataUrl # EmptyUrl

\* lines 1042, 1073-1077: the Map as the words it holds and the image of each
HandlerWordToImage(imageResults) ==
    LET kept == SelectSeq(imageResults, HasImage) IN
    [word \in {kept[i].word : i \in 1..Len(kept)} |->
        kept[CHOOSE i \in 1..Len(kept) :
                /\ kept[i].word = word
                /\ \A j \in 1..Len(kept) : kept[j].word = word => j <= i].image]

\* line 1079
HandlerMissingWords(uniqueWords, wordToImage) ==
    SelectSeq(uniqueWords, LAMBDA word : word \notin DOMAIN wordToImage)

\* lines 297, 306: item && (!item.image || !item.image.imageDataUrl)
IsMissingImage(item) == item.image.imageDataUrl = EmptyUrl

\* item.image && item.image.error ? item.image.error : 'no image returned'
ItemError(item) ==
    IF item.image.error # <<>> /\ item.image.error[1] # NoMessage
    THEN item.image.error[1] ELSE Message("no image returned", {}, -1)

\* summarizeImageError (part_003:277-293)
summarizeImageError(errorMessage) ==
    IF "limit: 0" \in errorMessage.phrases
    THEN [form |-> "entitlement", detail |-> <<>>, retrySec |-> -1]
    ELSE IF errorMessage.phrases \intersect ThrottlePhrases # {}
    THEN [form |-> "throttled", detail |-> <<>>,
          retrySec |-> IF parseRetrySeconds(errorMessage) > 0
                       THEN parseRetrySeconds(errorMessage) ELSE -1]
    ELSE [form |-> "verbatim", detail |-> <<errorMessage>>, retrySec |-> -1]

\* summarizeMissingImageReasons (part_003:295-302)
summarizeMissingImageReasons(imageResults) ==
    LET failed == SliceFirst(SelectSeq(imageResults, IsMissingImage), 3) IN
    [i \in 1..Len(failed) |->
        [word |-> failed[i].word, reason |-> summarizeImageError(ItemError(failed[i]))]]

\* collectImageFailureDiagnostics (part_003:304-313)
collectImageFailureDiagnostics(imageResults) ==
    LET failed == SliceFirst(SelectSeq(imageResults, IsMissingImage), 5) IN
    [i \in 1..Len(failed) |->
        [word |-> failed[i].word, error |-> ItemError(failed[i]),
         attempts |-> SliceLast(failed[i].image.debugAttempts, 3)]]

\* lines 1087-1104; the deferred path (1007-1019) is the same with an empty Map
EnrichedPairs(pairs, wordToImage) ==
    LET Card(side) ==
            IF side.word \in DOMAIN wordToImage
            THEN [word |-> side.word,
                  imageDataUrl |-> wordToImage[side.word].imageDataUrl,
                  mimeType |-> wordToImage[side.word].mimeType]
            ELSE [word |-> side.word, imageDataUrl |-> EmptyUrl, mimeType |-> ""]
    IN [i \in 1..Len(pairs) |->
          [rhymeSound |-> pairs[i].rhymeSound,
           left |-> Card(pairs[i].left), right |-> Card(pairs[i].right)]]

\* res.status(...).json(...): absent keys are <<>>, '' and null are <<>>
HandlerErrorResponse(status, message) ==
    [status |-> status, error |-> <<message>>, worksheet |-> <<>>, usedTextModel |-> EmptyName,
     usedImageModels |-> <<>>, imageWarning |-> <<>>, imageDiagnostics |-> <<>>,
     deferredImages |-> FALSE]

\* lines 1006-1036
HandlerDeferredResponse(returned) ==
    [status |-> 200, error |-> <<>>,
     worksheet |-> <<[returned.worksheet EXCEPT !.pairs = EnrichedPairs(@, <<>>)]>>,
     usedTextModel |-> returned.usedModel, usedImageModels |-> <<>>,
     imageWarning |-> <<>>, imageDiagnostics |-> <<>>, deferredImages |-> TRUE]

\* lines 1073-1138
HandlerFullResponse(returned, uniqueWords, imageResults, env) ==
    LET wordToImage == HandlerWordToImage(imageResults)
        missingWords == HandlerMissingWords(uniqueWords, wordToImage)
        missingReasons == summarizeMissingImageReasons(imageResults)
        failureDiagnostics == collectImageFailureDiagnostics(imageResults)
    IN [status |-> 200, error |-> <<>>,
        worksheet |-> <<[returned.worksheet EXCEPT !.pairs = EnrichedPairs(@, wordToImage)]>>,
        usedTextModel |-> returned.usedModel,
        usedImageModels |-> ImageModelCandidates(env.GEMINI_IMAGE_MODEL),
        imageWarning |->
            IF Len(missingWords) > 0
            THEN <<[missing |-> Len(missingWords), total |-> Len(uniqueWords),
                    details |-> missingReasons]>>
            ELSE <<>>,
        imageDiagnostics |->
            IF Len(missingWords) > 0
            THEN <<[imageModelCandidates |-> ImageModelCandidates(env.GEMINI_IMAGE_MODEL),
                    imageAttempts |-> geminiImageAttempts(env),
                    imageConcurrency |-> geminiImageConcurrency(env),
                    missingWords |-> missingWords,
                    sampleFailures |-> failureDiagnostics]>>
            ELSE <<>>,
        deferredImages |-> FALSE]

\* lines 1139-1145 for a value thrown by an image job
ThrownMessage(message) ==
    [form |-> "verbatim", detail |-> <<message>>, retrySec |-> -1, tried |-> <<>>]

\* ---- samples
HandlerBodyModels == {ModelName(0, "gpt-4.1-mini")}

HandlerPairCounts == {JsValue("number", Num(3))}

EnvImageModelSamples == {EmptyName, ModelName(1, "gemini-3-pro-image")}

HandlerEnvImageModels == {EmptyName}

\* pairs whose words repeat, one of them with a leading number
RepeatEntries ==
    <<Entry(Str(<<"a", "t">>), Str(<<"c", "a", "t">>), Undefined,
            Str(<<"7", " ", "h", "a", "t">>), Undefined),
      Entry(Str(<<"a", "t">>), Str(<<"h", "a", "t">>), Undefined,
            Str(<<"c", "a", "t">>), Undefined),
      Entry(Str(<<"a", "t">>), Str(<<"b", "a", "t">>), Undefined,
            Str(<<"c", "a", "t">>), Undefined),
      Entry(Str(<<"a", "t">>), Str(<<"h", "a", "t">>), Undefined,
            Str(<<"b", "a", "t">>), Undefined),
      Entry(Str(<<"a", "t">>), Str(<<"r", "a", "t">>), Undefined,
            Str(<<"c", "a", "t">>), Undefined)>>

\* three different words in three pairs, two of them to clean, one in the
\* nested {left: {word}} shape
MixedEntries ==
    <<Entry(Str(<<"a", "t">>), Str(<<"c", "a", "t">>), Undefined,
            Str(<<"h", "a", "t">>), Undefined),
      Entry(Undefined, Str(<<" ", "d", "o", "g", "1">>), Undefined,
            Str(<<"c", "a", "t">>), Undefined),
      Entry(Str(<<"a", "t">>), Undefined, Str(<<"h", "a", "t">>),
            Str(<<>>), Str(<<"d", "o", "g", "!">>)),
      Entry(Str(<<"o", "g">>), Str(<<"d", "o", "g">>), Undefined,
            Str(<<"c", "a", "t">>), Undefined),
      Entry(Str(<<"a", "t">>), Str(<<"c", "a", "t">>), Undefined,
            Str(<<"h", "a", "t">>), Undefined)>>

MixedJson(n) == [WorksheetJson(0) EXCEPT !.pairs = SubSeq(MixedEntries, 1, n)]

RepeatJson(n) == [WorksheetJson(0) EXCEPT !.pairs = SubSeq(RepeatEntries, 1, n)]

HandlerTextResponses(count) ==
    {ErrorResponse(400, <<ApiKeyMessage>>), ErrorResponse(404, <<NotFoundMessage>>),
     OkResponse("json", MixedJson(count)), OkResponse("json", RepeatJson(count))}

HandlerImageResponses ==
    {ImageOkResponse(<<InlinePart("image/png", <<"A", "A", "=">>)>>), ImageOkResponse(<<>>),
     ImageErrorResponse(429, <<ThrottledMessage>>),
     ImageErrorResponse(400, <<ApiKeyMessage>>)}

\* ---------------------------------------------------------------------
\* SpecHandler: one POST for a worksheet.  A step is what the handler runs
\* between two awaited provider calls.
\* ---------------------------------------------------------------------
InitHandler ==
    /\ hBody \in [model : HandlerBodyModels, pairCount : HandlerPairCounts,
                  deferImages : BOOLEAN]
    /\ hEnv \in [GEMINI_MODEL : {EmptyName}, GEMINI_IMAGE_MODEL : HandlerEnvImageModels,
                 GEMINI_IMAGE_ATTEMPTS : {Num(n) : n \in 1..MaxImageAttempts},
                 GEMINI_IMAGE_CONCURRENCY : {Num(n) : n \in 1..MaxImageConcurrency}]
    /\ HandlerNotCalled
    /\ IdleDispatch /\ IdleClassify /\ IdleText /\ IdleApp /\ IdleFunctions /\ IdleFlows

\* lines 816-994: up to the first provider call of generateWordWorksheet
HandlerStart ==
    /\ hPc = "idle"
    /\ hPc' = "text"
    /\ candidateModels' = TextModelCandidates(hBody.model, hEnv.GEMINI_MODEL)
    /\ pairCount' = HandlerPairCount(hBody)
    /\ TextEnter
    /\ UNCHANGED <<hBody, hEnv, hWorksheet, hUniqueWords, hJobs, hImageCalls, hResponse>>
    /\ UNCHANGED <<dispatchVars, classifyVars, appVars>>
    /\ UNCHANGED functionVars
    /\ UNCHANGED flowVars

\* the provider calls in flight once the workers of d have run to their await
CallsAfter(d, calls, before) ==
    [i \in 1..Len(d.items) |->
        calls[i] + Cardinality({w \in MwcAwaiting(d) \ before : d.workers[w].index = i - 1})]

\* a text response: the loop of generateWordWorksheet goes on, or it throws
\* (lines 1139-1145), or it returns and the handler runs on to its response
\* (deferImages) or to the first image calls (lines 1038-1071)
HandlerTextTurn(resp) ==
    /\ hPc = "text"
    /\ TextStep(resp)
    /\ CASE tPc' = "threw" ->
              /\ hPc' = "responded"
              /\ hResponse' = <<HandlerErrorResponse(502, tError'[1])>>
              /\ UNCHANGED <<hWorksheet, hUniqueWords, hJobs, hImageCalls, mwc>>
         [] tPc' = "returned" /\ HandlerDefersImages(hBody) ->
              /\ hPc' = "responded"
              /\ hWorksheet' = <<tReturn'[1].worksheet>>
              /\ hResponse' = <<HandlerDeferredResponse(tReturn'[1])>>
              /\ UNCHANGED <<hUniqueWords, hJobs, hImageCalls, mwc>>
         [] tPc' = "returned" /\ ~HandlerDefersImages(hBody) ->
              LET uniqueWords == HandlerUniqueWords(tReturn'[1].worksheet)
                  d == MwcStart(uniqueWords, geminiImageConcurrency(hEnv))
              IN /\ hPc' = "images"
                 /\ hWorksheet' = <<tReturn'[1].worksheet>>
                 /\ hUniqueWords' = uniqueWords
                 /\ mwc' = d
                 /\ hJobs' = [w \in DOMAIN d.workers |-> ImageWalkStart]
                 /\ hImageCalls' = CallsAfter(d, [i \in 1..Len(uniqueWords) |-> 0], {})
                 /\ UNCHANGED hResponse
         [] OTHER ->
              UNCHANGED <<hPc, hWorksheet, hUniqueWords, hJobs, hImageCalls, hResponse, mwc>>
    /\ UNCHANGED <<hBody, hEnv, candidateModels, pairCount>>
    /\ UNCHANGED <<dItems, dConcurrency, dThrows, classifyVars, appVars>>
    /\ UNCHANGED functionVars
    /\ UNCHANGED flowVars

\* an image response for the job worker w awaits: generateWordImage calls the
\* provider again, or returns and the worker stores { word, image } and takes
\* the next word; the last return resolves the batch and the handler responds
HandlerImageTurn(w, resp) ==
    /\ hPc \in {"images", "responded"}
    /\ w \in MwcAwaiting(mwc)
    /\ LET word == MwcItemOf(mwc, w)
           turn == ImageTurn(hJobs[w], resp, ImageModelCandidates(hEnv.GEMINI_IMAGE_MODEL),
                             geminiImageAttempts(hEnv))
           d == CASE turn.kind = "await" -> mwc
                  [] turn.kind = "return" ->
                        MwcFulfil(mwc, w, [word |-> word, image |-> turn.image])
                  [] OTHER -> MwcReject(mwc, w)
       IN /\ mwc' = d
          /\ hJobs' = [hJobs EXCEPT ![w] = IF turn.kind = "await" THEN turn.walk
                                           ELSE ImageWalkStart]
          /\ hImageCalls' =
                IF turn.kind = "await"
                THEN [hImageCalls EXCEPT ![mwc.workers[w].index + 1] = @ + 1]
                ELSE CallsAfter(d, hImageCalls, MwcAwaiting(mwc) \ {w})
          /\ IF hResponse # <<>> \/ d.settled = "pending"
             THEN UNCHANGED <<hPc, hResponse>>
             ELSE /\ hPc' = "responded"
                  /\ hResponse' =
                        IF d.settled = "resolved"
                        THEN <<HandlerFullResponse(tReturn[1], hUniqueWords,
                                                   ImageResults(d), hEnv)>>
                        ELSE <<HandlerErrorResponse(502, ThrownMessage(turn.image.error[1]))>>
    /\ UNCHANGED <<hBody, hEnv, hWorksheet, hUniqueWords>>
    /\ UNCHANGED <<dItems, dConcurrency, dThrows, classifyVars, textVars, appVars>>
    /\ UNCHANGED functionVars
    /\ UNCHANGED flowVars

NextHandler ==
    \/ HandlerStart
    \/ \E resp \in HandlerTextResponses(pairCount) : HandlerTextTurn(resp)
    \/ \E w \in DOMAIN mwc.workers, resp \in HandlerImageResponses : HandlerImageTurn(w, resp)

SpecHandler == InitHandler /\ [][NextHandler]_vars

\* ---------------------------------------------------------------------
\* The App component (src/src/App.tsx): generate, then hydrate the images
\* of the worksheet in the background.
\* ---------------------------------------------------------------------
SanitizedMimes == {"image/png", "image/jpeg", "image/jpg", "image/webp"}

\* characters of the class [a-z0-9+/=] (case-insensitive)
Base64Chars == {"A", "a", "0", "+", "/", "="}

\* the i flag of both patterns, for the media types of the samples
LowerCase(mimeType) == IF mimeType = "image/PNG" THEN "image/png" ELSE mimeType

\* rawValue.trim(): a string is
\*   lead ++ (data:<mime>;base64, | <scheme>:// | nothing) ++ data
\* with lead and data sequences of characters
TrimUrl(url) ==
    IF url.scheme = ""
    THEN [url EXCEPT !.lead = <<>>, !.data = Trim(url.lead \o url.data)]
    ELSE [url EXCEPT !.lead = <<>>, !.data = TrimEnd(@)]

\* /^data:image\/(png|jpeg|jpg|webp);base64,[a-z0-9+/=\s]+$/i (App.tsx:178)
MatchesDataImage(value) ==
    /\ value.lead = <<>>
    /\ value.scheme = "data"
    /\ LowerCase(value.mime) \in SanitizedMimes
    /\ value.data # <<>>
    /\ \A c \in Range(value.data) : c \in Base64Chars \union WhitespaceChars

\* /^https?:\/\/\S+$/i (App.tsx:182)
MatchesHttpUrl(value) ==
    /\ value.lead = <<>>
    /\ value.scheme \in {"http", "https"}
    /\ value.data # <<>>
    /\ \A c \in Range(value.data) : c \notin WhitespaceChars

\* Mutant of sanitizeImageDataUrl: the trimmed value is tested and the
\* argument returned.
sanitizeImageDataUrl_Untrimmed(rawValue) ==
    IF rawValue = <<>> THEN EmptyUrl
    ELSE LET value == TrimUrl(rawValue[1]) IN
         IF value = EmptyUrl THEN EmptyUrl
         ELSE IF MatchesDataImage(value) THEN rawValue[1]
         ELSE IF MatchesHttpUrl(value) THEN rawValue[1]
         ELSE EmptyUrl

\* sanitizeImageDataUrl (App.tsx:168-187) of <<>> (not a string) or <<url>>
sanitizeImageDataUrl(rawValue) ==
    IF rawValue = <<>> THEN EmptyUrl
    ELSE LET value == TrimUrl(rawValue[1]) IN
         IF value = EmptyUrl THEN EmptyUrl
         ELSE IF MatchesDataImage(value) THEN value
         ELSE IF MatchesHttpUrl(value) THEN value
         ELSE EmptyUrl

HydrationPhrases ==
    {"rate limit", "throttl", "quota exceeded", "retry in", "429", "resource exhausted"}

\* isRetryableHydrationError (App.tsx:195-197)
isRetryableHydrationError(message) == message.phrases \intersect HydrationPhrases # {}

\* ---------------------------------------------------------------------
\* normalizeWorksheet (App.tsx:199-247).  A parsed JSON candidate is
\*   [t: "object" | "null" | "undefined" | "number", title, instruction,
\*    language: value, pairsIsArray: BOOLEAN, pairs: sequence of entries],
\* an entry is [t: "object" | "null", rhymeSound: value, left, right: side]
\* and a side is [word: value, imageDataUrl: <<>> or <<url>>, mimeType], all
\* of it undefined / absent for an entry without that side.
\* ---------------------------------------------------------------------
NoSide == [word |-> Undefined, imageDataUrl |-> <<>>, mimeType |-> ""]

ClientSide(word, imageDataUrl, mimeType) ==
    [word |-> word, imageDataUrl |-> imageDataUrl, mimeType |-> mimeType]

ClientEntry(rhymeSound, left, right) ==
    [t |-> "object", rhymeSound |-> rhymeSound, left |-> left, right |-> right]

NullClientEntry == [t |-> "null", rhymeSound |-> Undefined, left |-> NoSide, right |-> NoSide]

\* what response.json() (App.tsx:279) makes of the worksheet the route sent,
\* <<>> when the payload has none
WorksheetPayload(sent) ==
    IF sent = <<>>
    THEN [t |-> "undefined", title |-> Undefined, instruction |-> Undefined,
          language |-> Undefined, pairsIsArray |-> FALSE, pairs |-> <<>>]
    ELSE LET Side(side) == ClientSide(Str(side.word), <<side.imageDataUrl>>, side.mimeType) IN
         [t |-> "object", title |-> Str(sent[1].title),
          instruction |-> Str(sent[1].instruction), language |-> Str(sent[1].language),
          pairsIsArray |-> TRUE,
          pairs |-> [i \in 1..Len(sent[1].pairs) |->
                        ClientEntry(Str(sent[1].pairs[i].rhymeSound),
                                    Side(sent[1].pairs[i].left),
                                    Side(sent[1].pairs[i].right))]]

normalizeWorksheet(candidate, language, count) ==
    IF candidate.t # "object"
    THEN [threw |-> <<Message("Model returned an unexpected worksheet format.", {}, -1)>>,
          value |-> <<>>]
    ELSE
    LET rawPairs == IF candidate.pairsIsArray THEN candidate.pairs ELSE <<>> IN
    IF Len(rawPairs) < count
    THEN [threw |-> <<NumberedMessage("Model returned only N pairs. Try regenerate.",
                                      Len(rawPairs))>>,
          value |-> <<>>]
    ELSE
    LET kept == SliceFirst(rawPairs, count)
        Side(side) == [word |-> cleanWord(side.word),
                       imageDataUrl |-> sanitizeImageDataUrl(side.imageDataUrl),
                       mimeType |-> side.mimeType]
    IN
    \* const pair = entry; pair.left of a null entry is a TypeError
    IF \E index \in 1..Len(kept) : kept[index].t = "null"
    THEN [threw |-> <<Message("TypeError: Cannot read properties of null", {}, -1)>>,
          value |-> <<>>]
    ELSE [threw |-> <<>>,
          value |-> <<[title |-> TrimmedOr(candidate.title,
                                           language \o <<" ", "Rhyming Match Sheet">>),
                       instruction |-> TrimmedOr(candidate.instruction,
                                           <<"Draw a line between words that rhyme.">>),
                       language |-> TrimmedOr(candidate.language, language),
                       pairs |-> [index \in 1..Len(kept) |->
                                    [rhymeSound |-> TrimmedOr(kept[index].rhymeSound,
                                                     <<"p", "a", "i", "r", " ", DigitChar(index)>>),
                                     left |-> Side(kept[index].left),
                                     right |-> Side(kept[index].right)]]]>>]

\* Mutant of GenerateErrorMessage: payload?.error ?? ''
GenerateErrorMessage_NoDefault(resp) ==
    IF resp.error # <<>> THEN resp.error[1] ELSE ThrownMessage(NoMessage)

\* lines 281-287: the message thrown for a response that is not ok
GenerateErrorMessage(resp) ==
    IF resp.status = 404
    THEN ThrownMessage(Message("API route is missing.", {}, -1))
    ELSE IF resp.error # <<>> THEN resp.error[1]
    ELSE ThrownMessage(NumberedMessage("Worksheet generation failed", resp.status))

\* generateWorksheet (App.tsx:249-295) from the response of its fetch on
generateWorksheet(resp, language, count) ==
    IF resp.status # 200
    THEN [threw |-> <<GenerateErrorMessage(resp)>>, value |-> <<>>]
    ELSE LET normalized == normalizeWorksheet(WorksheetPayload(resp.worksheet), language, count) IN
         IF normalized.threw # <<>>
         THEN [threw |-> <<ThrownMessage(normalized.threw[1])>>, value |-> <<>>]
         ELSE [threw |-> <<>>,
               value |-> <<[worksheet |-> normalized.value[1],
                            imageWarning |->
                                IF resp.imageWarning = <<>> THEN NoWarning
                                ELSE [kind |-> "server",
                                      done |-> resp.imageWarning[1].missing,
                                      total |-> resp.imageWarning[1].total],
                            imageDiagnostics |->
                                IF resp.imageDiagnostics = <<>> THEN <<>>
                                ELSE <<[failedWords |-> resp.imageDiagnostics[1].missingWords,
                                        failedReasons |-> <<>>]>>,
                            deferredImages |-> resp.deferredImages]>>]

\* two of the orders Math.random can make shuffle (App.tsx:143-152) return:
\* the order given and its reverse
ShuffleOrders(n) == {[i \in 1..n |-> i], [i \in 1..n |-> n + 1 - i]}

\* toColumnCards (App.tsx:387-408), with the order shuffle produced
toColumnCards(sheet, order) ==
    LET Card(side, pairIndex, illustration) ==
            [id |-> [side |-> IF side = "left" THEN "L" ELSE "R",
                     pairIndex |-> pairIndex, word |-> illustration.word],
             pairIndex |-> pairIndex, word |-> illustration.word,
             imageDataUrl |-> illustration.imageDataUrl, side |-> side]
        left == [i \in 1..Len(sheet.pairs) |-> Card("left", i - 1, sheet.pairs[i].left)]
        right == [i \in 1..Len(sheet.pairs) |-> Card("right", i - 1, sheet.pairs[i].right)]
    IN [left |-> left, right |-> [i \in 1..Len(right) |-> right[order[i]]]]

\* patchWordImageEverywhere (App.tsx:425-473): the setCards updater
PatchCards(previous, targetWord, imageDataUrl) ==
    IF previous = <<>> THEN previous
    ELSE LET patchItems(items) ==
                 [i \in 1..Len(items) |->
                     IF items[i].word = targetWord
                     THEN [items[i] EXCEPT !.imageDataUrl = imageDataUrl] ELSE items[i]]
         IN <<[left |-> patchItems(previous[1].left), right |-> patchItems(previous[1].right)]>>

\* Mutant of PatchWorksheet: the write starts from a draft without images
\* instead of the state of the moment.
PatchWorksheet_FromDraft(previous, targetWord, imageDataUrl) ==
    IF previous = <<>> THEN previous
    ELSE LET Side(side) == IF side.word = targetWord
                           THEN [side EXCEPT !.imageDataUrl = imageDataUrl]
                           ELSE [side EXCEPT !.imageDataUrl = EmptyUrl]
         IN <<[previous[1] EXCEPT !.pairs =
                  [i \in 1..Len(@) |-> [@[i] EXCEPT !.left = Side(@), !.right = Side(@)]]]>>

\* patchWordImageEverywhere (App.tsx:425-473): the setWorksheet updater
PatchWorksheet(previous, targetWord, imageDataUrl) ==
    IF previous = <<>> THEN previous
    ELSE LET Side(side) == IF side.word = targetWord
                           THEN [side EXCEPT !.imageDataUrl = imageDataUrl] ELSE side
         IN <<[previous[1] EXCEPT !.pairs =
                  [i \in 1..Len(@) |-> [@[i] EXCEPT !.left = Side(@), !.right = Side(@)]]]>>

\* lines 476-478
HydrationUniqueWords(sourceWorksheet) ==
    LET words == PairWords(sourceWorksheet.pairs) IN
    Dedupe([i \in 1..Len(words) |-> cleanWord(Str(words[i]))])

\* line 490
hydrationConcurrency == 3

\* line 500: attempt < 3
hydrationAttempts == 3

\* Mutant of HydrationTokenCurrent: every completion counts as current.
HydrationTokenCurrent_Always(runToken, current) == runToken = runToken

\* lines 517, 544, 550: runToken === generationRunRef.current
HydrationTokenCurrent(runToken, current) == runToken = current

\* `Generating images (${completed}/${uniqueWords.length})…`
ProgressWarning(completed, total) == [kind |-> "generating", done |-> completed, total |-> total]

\* `Some images could not be generated (${failedWords.length}/${uniqueWords.length}). ...`
FailedWarning(failed, total) == [kind |-> "failed", done |-> failed, total |-> total]

\* requestSingleWordImage (App.tsx:297-327): the message of the Error thrown
SingleWordErrorMessage(resp) ==
    IF resp.error # <<>> THEN resp.error[1]
    ELSE [text |-> "Image generation failed", num |-> resp.status,
          phrases |-> IF resp.status = 429 THEN {"429"} ELSE {}, retrySec |-> -1]

\* a call of handleGenerate that awaits its worksheet
NewRun(count) ==
    [token |-> 0, pc |-> "text", pairCount |-> count, source |-> <<>>, d |-> MwcNotCalled, jobs |-> <<>>,
     completed |-> 0, failedWords |-> <<>>, failedReasons |-> <<>>, discarded |-> {}]

\* the local state of the mapper (lines 497-498) at its first request
NewJob == [attempt |-> 0, lastError |-> <<>>]

\* ---- samples
AppPairCounts == {3}

\* model output with two different words, one of them behind a number
CatHatEntries ==
    <<Entry(Str(<<"a", "t">>), Str(<<"c", "a", "t">>), Undefined,
            Str(<<"h", "a", "t">>), Undefined),
      Entry(Str(<<"a", "t">>), Str(<<"h", "a", "t">>), Undefined,
            Str(<<"7", " ", "c", "a", "t">>), Undefined),
      Entry(Str(<<"a", "t">>), Str(<<"c", "a", "t">>), Undefined,
            Str(<<"h", "a", "t">>), Undefined)>>

CatBatEntries ==
    <<Entry(Str(<<"a", "t">>), Str(<<"c", "a", "t">>), Undefined,
            Str(<<"b", "a", "t">>), Undefined),
      Entry(Str(<<"a", "t">>), Str(<<"b", "a", "t">>), Undefined,
            Str(<<"c", "a", "t">>), Undefined),
      Entry(Str(<<"a", "t">>), Str(<<"c", "a", "t">>), Undefined,
            Str(<<"b", "a", "t">>), Undefined)>>

\* what the route answers to the App's deferImages request
AppTextResponses(count) ==
    {HandlerDeferredResponse(
         [worksheet |-> normalizeWordWorksheet([WorksheetJson(0) EXCEPT !.pairs = entries],
                                               English, count).value[1],
          usedModel |-> ModelName(0, "gemini-2.5-pro")]) :
       entries \in {CatHatEntries, CatBatEntries}}
    \union
    {HandlerErrorResponse(502, humanizeGeminiError(ApiKeyMessage,
                                                   <<ModelName(0, "gemini-2.5-pro")>>))}

SingleWordResponse(status, url, message) ==
    [status |-> status, imageDataUrl |-> url, error |-> message]

\* what the route answers to a single-word image request: an image, a URL the
\* sanitizer refuses, a throttling error, an error that is not retryable
AppImageResponses ==
    {SingleWordResponse(200, <<DataUrl("image/png", <<"A", "A", "=">>)>>, <<>>),
     SingleWordResponse(200, <<[lead |-> <<>>, scheme |-> "gs", mime |-> "", data |-> <<"b">>]>>,
                        <<>>),
     SingleWordResponse(502, <<>>, <<Message("Image model throttled. Retry in about 13s.",
                                             {"throttl", "retry in"}, 13)>>),
     SingleWordResponse(502, <<>>, <<ApiKeyMessage>>)}

\* ---------------------------------------------------------------------
\* SpecApp: clicks on Generate / Regenerate and the responses to the
\* requests in flight.  A step is what runs between two awaits.
\* ---------------------------------------------------------------------
InitApp ==
    /\ IdleApp
    /\ IdleDispatch /\ IdleClassify /\ IdleText /\ IdleHandler /\ IdleFunctions /\ IdleFlows

\* Mutant of NextRunToken: the increment is left out.
NextRunToken_Same(current) == current + 0

\* line 568: generationRunRef.current += 1
NextRunToken(current) == current + 1

\* handleGenerate (App.tsx:567-579) up to its await; runToken (line 569) is
\* kept in the run
handleGenerateCall(count) ==
    /\ Len(runs) < MaxRuns
    /\ generationRunRef' = NextRunToken(generationRunRef)
    /\ runs' = Append(runs, [NewRun(count) EXCEPT !.token = generationRunRef'])
    /\ isLoading' = TRUE
    /\ isHydratingImages' = FALSE
    /\ error' = <<>>
    /\ warning' = NoWarning
    /\ warningDetails' = <<>>
    /\ UNCHANGED <<worksheet, cards, refreshVars>>
    /\ UNCHANGED <<dispatchVars, classifyVars, textVars, handlerVars>>
    /\ UNCHANGED functionVars
    /\ UNCHANGED flowVars

\* a click on Generate or Regenerate: the buttons are disabled while isLoading
\* (lines 945, 954)
HandleGenerate(count) ==
    /\ ~isLoading
    /\ handleGenerateCall(count)

\* handleGenerate from the response to its request on (lines 579-609), with
\* the start of hydrateImagesForWorksheet (lines 475-492) up to the first
\* request of each worker
GenerateResponse(runToken, resp, order) ==
    /\ runToken \in DOMAIN runs
    /\ runs[runToken].pc = "text"
    /\ LET run == runs[runToken]
           generated == generateWorksheet(resp, English, run.pairCount)
       IN IF generated.threw # <<>>
          THEN /\ error' = generated.threw
               /\ isHydratingImages' = FALSE
               /\ runs' = [runs EXCEPT ![runToken].pc = "failed"]
               /\ UNCHANGED <<worksheet, cards, warning, warningDetails>>
          ELSE LET sheet == generated.value[1].worksheet
                   uniqueWords == HydrationUniqueWords(sheet)
                   d == MwcStart(uniqueWords, hydrationConcurrency)
               IN /\ worksheet' = <<sheet>>
                  /\ cards' = <<toColumnCards(sheet, order)>>
                  /\ UNCHANGED error
                  /\ IF generated.value[1].deferredImages /\ Len(uniqueWords) > 0
                     THEN /\ isHydratingImages' = TRUE
                          /\ warning' = ProgressWarning(0, Len(uniqueWords))
                          /\ warningDetails' = <<>>
                          /\ runs' = [runs EXCEPT ![runToken] =
                                        [@ EXCEPT !.pc = "hydrating", !.source = <<sheet>>,
                                                  !.d = d,
                                                  !.jobs = [w \in DOMAIN d.workers |-> NewJob]]]
                     ELSE /\ warning' = generated.value[1].imageWarning
                          /\ warningDetails' = generated.value[1].imageDiagnostics
                          /\ runs' = [runs EXCEPT ![runToken].pc = "shown",
                                                  ![runToken].source = <<sheet>>]
                          /\ UNCHANGED isHydratingImages
    /\ isLoading' = FALSE
    /\ UNCHANGED <<generationRunRef, refreshVars>>
    /\ UNCHANGED <<dispatchVars, classifyVars, textVars, handlerVars>>
    /\ UNCHANGED functionVars
    /\ UNCHANGED flowVars

\* the mapper of hydrateImagesForWorksheet (lines 492-548) from the response
\* to the request of worker w on: another attempt after the sleep, or the end
\* of the job, the worker's next word and, after the last job, lines 550-564
HydrationResponse(runToken, w, resp) ==
    /\ runToken \in DOMAIN runs
    /\ runs[runToken].pc = "hydrating"
    /\ w \in MwcAwaiting(runs[runToken].d)
    /\ LET run == runs[runToken]
           word == MwcItemOf(run.d, w)
           job == run.jobs[w]
           total == Len(run.d.items)
           message == SingleWordErrorMessage(resp)
           threw == resp.status # 200
           retry == threw /\ isRetryableHydrationError(message)
                          /\ ~(job.attempt >= hydrationAttempts - 1)
           imageDataUrl == IF threw THEN EmptyUrl ELSE sanitizeImageDataUrl(resp.imageDataUrl)
           current == HydrationTokenCurrent(run.token, generationRunRef)
           patched == ~threw /\ current /\ imageDataUrl # EmptyUrl
           failed == threw \/ (current /\ imageDataUrl = EmptyUrl)
           reason == IF threw THEN message
                     ELSE IF job.lastError # <<>> /\ job.lastError[1] # NoMessage
                     THEN job.lastError[1]
                     ELSE Message("no image data returned", {}, -1)
           failedWords == IF failed THEN Append(run.failedWords, word) ELSE run.failedWords
           failedReasons == IF failed
                            THEN Append(run.failedReasons, [word |-> word, reason |-> reason])
                            ELSE run.failedReasons
           completed == run.completed + 1
           d == MwcFulfil(run.d, w, Undefined)
           finished == d.settled = "resolved"
           outcome == IF threw THEN "error" ELSE IF imageDataUrl # EmptyUrl THEN "image"
                      ELSE "noImage"
       IN IF retry
          THEN /\ runs' = [runs EXCEPT ![runToken].jobs[w] =
                             [attempt |-> job.attempt + 1, lastError |-> <<message>>]]
               /\ UNCHANGED <<worksheet, cards, warning, warningDetails, isHydratingImages>>
          ELSE /\ runs' = [runs EXCEPT ![runToken] =
                             [@ EXCEPT !.pc = IF finished THEN "done" ELSE "hydrating",
                                       !.d = d,
                                       !.jobs[w] = NewJob,
                                       !.completed = completed,
                                       !.failedWords = failedWords,
                                       !.failedReasons = failedReasons,
                                       !.discarded = IF run.token # generationRunRef
                                                     THEN @ \union {outcome} ELSE @]]
               /\ cards' = IF patched THEN PatchCards(cards, word, imageDataUrl) ELSE cards
               /\ worksheet' = IF patched THEN PatchWorksheet(worksheet, word, imageDataUrl)
                               ELSE worksheet
               /\ IF finished /\ current
                  THEN /\ warning' = IF Len(failedWords) > 0
                                     THEN FailedWarning(Len(failedWords), total)
                                     ELSE NoWarning
                       /\ warningDetails' = IF Len(failedWords) > 0
                                            THEN <<[failedWords |-> failedWords,
                                                    failedReasons |-> failedReasons]>>
                                            ELSE <<>>
                       /\ isHydratingImages' = FALSE
                  ELSE /\ warning' = IF current THEN ProgressWarning(completed, total)
                                     ELSE warning
                       /\ UNCHANGED <<warningDetails, isHydratingImages>>
    /\ UNCHANGED <<generationRunRef, isLoading, error, refreshVars>>
    /\ UNCHANGED <<dispatchVars, classifyVars, textVars, handlerVars>>
    /\ UNCHANGED functionVars
    /\ UNCHANGED flowVars

\* ---------------------------------------------------------------------
\* handleRefreshCardImage (App.tsx:616-758).  The response to its request is
\*   [status, imageDataUrl: <<>> or <<url>>, word: value, error: <<>> or
\*    <<message>>]
\* ---------------------------------------------------------------------
RefreshResponseOf(status, imageDataUrl, word, message) ==
    [status |-> status, imageDataUrl |-> imageDataUrl, word |-> word, error |-> message]

\* Mutant of RefreshCards: the refreshed card is filtered out of its column.
RefreshCards_Remove(previous, card, nextWord, nextImageDataUrl) ==
    IF previous = <<>> THEN previous
    ELSE LET Other(item) == item.id # card.id
         IN <<[left |-> SelectSeq(previous[1].left, Other),
               right |-> SelectSeq(previous[1].right, Other)]>>

\* lines 673-690: the setCards updater
RefreshCards(previous, card, nextWord, nextImageDataUrl) ==
    IF previous = <<>> THEN previous
    ELSE LET patchItems(items) ==
                 [i \in 1..Len(items) |->
                     IF items[i].id = card.id
                     THEN [items[i] EXCEPT !.word = nextWord,
                                           !.imageDataUrl = nextImageDataUrl]
                     ELSE items[i]]
         IN <<[left |-> patchItems(previous[1].left), right |-> patchItems(previous[1].right)]>>

\* Mutant of RefreshWorksheet: both slots of the pair are patched.
RefreshWorksheet_WholePair(previous, card, nextWord, nextImageDataUrl) ==
    IF previous = <<>> THEN previous
    ELSE LET Side(side) == [side EXCEPT !.word = nextWord, !.imageDataUrl = nextImageDataUrl]
         IN <<[previous[1] EXCEPT !.pairs =
                  [pairIndex \in 1..Len(@) |->
                      IF pairIndex - 1 # card.pairIndex THEN @[pairIndex]
                      ELSE [@[pairIndex] EXCEPT !.left = Side(@), !.right = Side(@)]]]>>

\* lines 692-726: the setWorksheet updater
RefreshWorksheet(previous, card, nextWord, nextImageDataUrl) ==
    IF previous = <<>> THEN previous
    ELSE LET Side(side) == [side EXCEPT !.word = nextWord, !.imageDataUrl = nextImageDataUrl]
         IN <<[previous[1] EXCEPT !.pairs =
                  [pairIndex \in 1..Len(@) |->
                      IF pairIndex - 1 # card.pairIndex THEN @[pairIndex]
                      ELSE IF card.side = "left"
                      THEN [@[pairIndex] EXCEPT !.left = Side(@)]
                      ELSE [@[pairIndex] EXCEPT !.right = Side(@)]]]>>

\* Mutant of RefreshImage: the value of the payload is stored as it came.
RefreshImage_Raw(rawValue) == IF rawValue = <<>> THEN EmptyUrl ELSE rawValue[1]

\* line 661: sanitizeImageDataUrl(payload?.imageDataUrl)
RefreshImage(rawValue) == sanitizeImageDataUrl(rawValue)

\* Mutant of RefreshHasNextAttempt: the loop has no bound.
RefreshHasNextAttempt_Unbounded(attempt) == TRUE

\* line 635: for (let attempt = 0; attempt < 2; attempt += 1), asked after the
\* body ran for `attempt`
RefreshHasNextAttempt(attempt) == attempt + 1 < 2

\* Mutant of RefreshAllowed: only the cards are looked at.
RefreshAllowed_WhileBusy == cards # <<>>

\* line 617: if (isLoading || refreshingCardId || !cards) return
RefreshAllowed == ~(isLoading \/ refreshingCardId # <<>> \/ cards = <<>>)

\* a call of handleRefreshCardImage that gets past line 617 (the buttons of
\* lines 817, 846 are disabled while isLoading or a refresh is going on; a
\* call that does not get past it returns and leaves everything as it is),
\* lines 616-634 up to the first request
HandleRefreshCardImage(card) ==
    /\ refreshCount < MaxRefreshes
    /\ RefreshAllowed
    /\ card \in Range(cards[1].left) \union Range(cards[1].right)
    /\ refreshingCardId' = <<card.id>>
    /\ refreshCall' = Append(refreshCall, [card |-> card, attempt |-> 0])
    /\ refreshCount' = refreshCount + 1
    /\ error' = <<>>
    /\ UNCHANGED <<generationRunRef, worksheet, cards, isLoading, isHydratingImages, warning,
                   warningDetails, runs>>
    /\ UNCHANGED <<dispatchVars, classifyVars, textVars, handlerVars, functionVars>>
    /\ UNCHANGED flowVars

\* Mutant of RefreshingAfter: the id of the card stays.
RefreshingAfter_Kept(current) == current

\* line 756, in the finally of handleRefreshCardImage: setRefreshingCardId(null)
RefreshingAfter(current) == <<>>

\* handleRefreshCardImage from a response to its request on (lines 646-757):
\* the second request, or the end of the call
RefreshResponse(resp) ==
    /\ refreshCall # <<>>
    /\ LET card == refreshCall[1].card
           nextImageDataUrl == RefreshImage(resp.imageDataUrl)
           nextWord == cleanWord(IF resp.word.t = "undefined" THEN Str(card.word)
                                 ELSE resp.word)
           changed == nextImageDataUrl # card.imageDataUrl \/ nextWord # card.word
           Throw(message) ==
               /\ error' = <<ThrownMessage(message)>>
               /\ refreshingCardId' = RefreshingAfter(refreshingCardId)
               /\ refreshCall' = <<>>
               /\ UNCHANGED <<worksheet, cards>>
       IN IF resp.status # 200
          THEN Throw(IF resp.error # <<>> THEN resp.error[1]
                     ELSE Message("Could not refresh card.", {}, -1))
          ELSE IF nextImageDataUrl = EmptyUrl
          THEN Throw(Message("Received invalid image data", {}, -1))
          ELSE IF changed
          THEN /\ cards' = RefreshCards(cards, card, nextWord, nextImageDataUrl)
               /\ worksheet' = RefreshWorksheet(worksheet, card, nextWord, nextImageDataUrl)
               /\ refreshingCardId' = RefreshingAfter(refreshingCardId)
               /\ refreshCall' = <<>>
               /\ UNCHANGED error
          ELSE IF RefreshHasNextAttempt(refreshCall[1].attempt)
          THEN /\ refreshCall' = <<[refreshCall[1] EXCEPT !.attempt = @ + 1]>>
               /\ UNCHANGED <<worksheet, cards, error, refreshingCardId>>
          ELSE Throw(Message("No alternative returned yet. Try refresh again.", {}, -1))
    /\ UNCHANGED <<generationRunRef, isLoading, isHydratingImages, warning, warningDetails,
                   runs, refreshCount>>
    /\ UNCHANGED <<dispatchVars, classifyVars, textVars, handlerVars, functionVars>>
    /\ UNCHANGED flowVars

NextApp ==
    \/ \E count \in AppPairCounts : HandleGenerate(count)
    \/ \E runToken \in 1..MaxRuns :
         \E resp \in AppTextResponses(3), order \in ShuffleOrders(3) :
            GenerateResponse(runToken, resp, order)
    \/ \E runToken \in 1..MaxRuns, w \in 1..hydrationConcurrency, resp \in AppImageResponses :
         HydrationResponse(runToken, w, resp)

SpecApp == InitApp /\ [][NextApp]_vars

\* ---------------------------------------------------------------------
\* SpecAppReentrant: handleGenerate called whatever isLoading is (the function
\* itself, lines 567-610, does not look at isLoading), and the responses to
\* the requests in flight.
\* ---------------------------------------------------------------------
NextAppReentrant ==
    \/ \E count \in AppPairCounts : handleGenerateCall(count)
    \/ \E runToken \in 1..MaxRuns :
         \E resp \in AppTextResponses(3), order \in ShuffleOrders(3) :
            GenerateResponse(runToken, resp, order)
    \/ \E runToken \in 1..MaxRuns, w \in 1..hydrationConcurrency, resp \in AppImageResponses :
         HydrationResponse(runToken, w, resp)

SpecAppReentrant == InitApp /\ [][NextAppReentrant]_vars

\* ---------------------------------------------------------------------
\* Claims about the App component (SpecApp)
\* ---------------------------------------------------------------------
\* a step of the hydration of run t: a response to one of its image requests
HydrationStepOf(t) == runs[t].pc = "hydrating" /\ runs'[t] # runs[t]

\* C1: once a newer generation has been started, no step of an older run's
\* hydration (a job ending with an image, without one, or with an error, or
\* the end of the whole hydration) changes the worksheet, the cards, the
\* warning text or its details.
C1_StaleHydrationDiscarded ==
    [][\A t \in DOMAIN runs :
          (runs[t].token # generationRunRef /\ HydrationStepOf(t)) =>
              /\ worksheet' = worksheet
              /\ cards' = cards
              /\ warning' = warning
              /\ warningDetails' = warningDetails]_vars

\* run 2 has installed its worksheet and started hydrating; since it was
\* started, run 1's jobs have all ended, one with an image for a word run 2
\* shows too and one with an error, and run 2's draft has no image and still
\* reads 0 of 2
C1_Witness ==
    /\ generationRunRef = 2
    /\ runs[1].pc = "done"
    /\ {"image", "error"} \subseteq runs[1].discarded
    /\ runs[2].pc = "hydrating"
    /\ runs[2].completed = 0
    /\ worksheet = runs[2].source
    /\ Range(runs[1].d.items) \intersect Range(runs[2].d.items) # {}
    /\ \A i \in 1..Len(worksheet[1].pairs) :
          /\ worksheet[1].pairs[i].left.imageDataUrl = EmptyUrl
          /\ worksheet[1].pairs[i].right.imageDataUrl = EmptyUrl
    /\ \A i \in 1..Len(cards[1].left) :
          /\ cards[1].left[i].imageDataUrl = EmptyUrl
          /\ cards[1].right[i].imageDataUrl = EmptyUrl
    /\ warning = ProgressWarning(0, 2)

\* ---------------------------------------------------------------------
\* Properties of mapWithConcurrency (SpecDispatch)
\* ---------------------------------------------------------------------
\* No worker is awaiting a mapper any more.
DispatchQuiet == mwc.settled # "notCalled" /\ MwcAwaiting(mwc) = {}

\* C2 (as claimed): when the job of exactly one index throws, the call still ends
\* resolved, every slot holds a recorded outcome (the throwing index included),
\* and the worker that hit the failure went on to return normally.
C2_FailureIsolated ==
    (Cardinality(dThrows) = 1 /\ DispatchQuiet) =>
        /\ mwc.settled = "resolved"
        /\ \A i \in 1..Len(dItems) : mwc.results[i] # {}
        /\ \A w \in DOMAIN mwc.workers : mwc.workers[w].pc = "returned"

\* C3: no index ever has its mapper started twice; once the call resolves every
\* index was claimed exactly once and slot i holds the value of the job run on
\* item i, whatever the order of completion.
C3_SlotIdentity ==
    /\ mwc.settled # "notCalled" =>
          \A i \in 1..Len(dItems) : mwc.claimed[i] <= 1
    /\ mwc.settled = "resolved" =>
          /\ Len(mwc.results) = Len(dItems)
          /\ \A i \in 1..Len(dItems) :
                /\ mwc.claimed[i] = 1
                /\ mwc.results[i] = {JobValue(dItems[i])}

\* a resolved call with more items than workers, whose later items were claimed
\* by workers going round their loop
C3_Witness ==
    /\ mwc.settled = "resolved"
    /\ Len(mwc.workers) >= 2
    /\ Len(dItems) >= Len(mwc.workers) + 2

\* ---------------------------------------------------------------------
\* Properties of generateWordWorksheet (SpecText)
\* ---------------------------------------------------------------------
\* a response that yields a worksheet: JSON text holding an object with at
\* least pairCount pairs
UsableResponse(resp) ==
    /\ resp.ok
    /\ resp.text = "json"
    /\ resp.json.t = "object"
    /\ resp.json.pairsIsArray
    /\ Len(resp.json.pairs) >= pairCount

RetryableResponse(resp) ==
    ~resp.ok /\ isRetryableModelError(resp.status, GeminiErrorMessage(resp))

FatalResponse(resp) ==
    ~resp.ok /\ ~isRetryableModelError(resp.status, GeminiErrorMessage(resp))

\* C4: the candidates are called in list order; a returned worksheet names as
\* usedModel the first candidate whose response was usable, which is also the
\* last candidate called.
C4_FirstSuccessWins ==
    /\ Len(tCalls) <= Len(candidateModels)
    /\ \A k \in 1..Len(tCalls) : tCalls[k] = candidateModels[k]
    /\ tPc = "returned" =>
          LET n == Len(tCalls) IN
          /\ n >= 1
          /\ tReturn # <<>>
          /\ tReturn[1].usedModel = candidateModels[n]
          /\ UsableResponse(tResponses[n])
          /\ \A k \in 1..(n - 1) : ~UsableResponse(tResponses[k])

\* four candidates, two retryable failures, then success at the third
C4_Witness ==
    /\ tPc = "returned"
    /\ Len(candidateModels) = 4
    /\ Len(tCalls) = 3
    /\ RetryableResponse(tResponses[1])
    /\ RetryableResponse(tResponses[2])

\* C5: a response the classifier marks fatal is the last call made, and the
\* function has thrown; a fatal first response means exactly one call.
C5_FatalAborts ==
    \A k \in 1..Len(tResponses) :
        FatalResponse(tResponses[k]) =>
            /\ k = Len(tCalls)
            /\ tPc = "threw"
            /\ tError # <<>>
            /\ tReturn = <<>>

\* the first candidate of a list of four failed fatally
C5_Witness ==
    /\ Len(candidateModels) = 4
    /\ Len(tCalls) = 1
    /\ FatalResponse(tResponses[1])
    /\ tPc = "threw"

\* C6 (as claimed): the error thrown names every model that was called.
C6_ErrorNamesEveryCalledModel ==
    tPc = "threw" => Range(tCalls) \subseteq Range(tError[1].tried)

\* C7: when every response was a retryable error and the function has thrown,
\* each candidate was called exactly once in order, the error lists all the
\* candidates and is the rendering of the last candidate's error.
C7_Exhaustion ==
    (/\ tPc # "notCalled"
     /\ \A k \in 1..Len(tResponses) : RetryableResponse(tResponses[k])) =>
        /\ tPc = "threw" <=> Len(tCalls) = Len(candidateModels)
        /\ tPc = "threw" =>
              /\ tCalls = candidateModels
              /\ tError[1].tried = candidateModels
              /\ tError[1] = humanizeGeminiError(GeminiErrorMessage(tResponses[Len(tResponses)]),
                                                 candidateModels)

\* four retryable failures whose first and last error read differently
C7_Witness ==
    /\ tPc = "threw"
    /\ Len(tCalls) = 4
    /\ \A k \in 1..4 : RetryableResponse(tResponses[k])
    /\ humanizeGeminiError(GeminiErrorMessage(tResponses[1]), candidateModels)
         # humanizeGeminiError(GeminiErrorMessage(tResponses[4]), candidateModels)

\* ---------------------------------------------------------------------
\* Properties of isRetryableModelError (SpecClassify)
\* ---------------------------------------------------------------------
C8_AuthSignatures ==
    {"api key", "unauthorized", "forbidden", "permission denied", "billing account"}

C8_TransientSignatures ==
    {"not found", "not supported", "unsupported", "quota exceeded", "rate limit",
     "resource exhausted", "limit: 0", "retry in"}

\* C8: the decision table: an authorization/billing/permission signature makes
\* the error fatal whatever the status; otherwise a status >= 500 is retryable;
\* otherwise the error is retryable exactly when a transient signature occurs.
C8_DecisionTable ==
    clsResult # <<>> =>
        LET auth == clsMessage.phrases \intersect C8_AuthSignatures # {}
            transient == clsMessage.phrases \intersect C8_TransientSignatures # {}
        IN /\ auth => clsResult[1] = FALSE
           /\ (~auth /\ clsStatus >= 500) => clsResult[1] = TRUE
           /\ (~auth /\ clsStatus < 500) => (clsResult[1] = TRUE <=> transient)

\* a permission problem reported with a server-side status is fatal
C8_Witness ==
    /\ clsResult = <<FALSE>>
    /\ clsStatus >= 500
    /\ "permission denied" \in clsMessage.phrases

\* ---------------------------------------------------------------------
\* Claims about the handler's synchronous image path (SpecHandler)
\* ---------------------------------------------------------------------
\* the handler is past a successful text generation on the non-deferred path
ImagePath == tPc = "returned" /\ ~hBody.deferImages

\* the image a finished job of unique word i resolved to
JobImage(i) == (CHOOSE v \in mwc.results[i] : TRUE).image

\* the unique words whose finished job carries no image
WordsWithoutImage ==
    {hUniqueWords[i] : i \in {j \in 1..Len(hUniqueWords) :
                                 mwc.results[j] # {} /\ JobImage(j).imageDataUrl = EmptyUrl}}

ResponseWords == PairWords(hResponse[1].worksheet[1].pairs)

\* C9: once text generation has succeeded on the synchronous path, no outcome
\* of a word's image job (provider error, no image in the response, attempts
\* exhausted) rejects the batch or turns the response into an error: while
\* words are unfinished a worker is still running, every unique word's job
\* ends with a stored result, and the handler answers 200 with the worksheet
\* of pairCount pairs that text generation returned.
C9_ImageFailureNeverAborts ==
    ImagePath =>
        /\ hPc \in {"images", "responded"}
        /\ mwc.settled \in {"pending", "resolved"}
        /\ (\E i \in 1..Len(hUniqueWords) : mwc.results[i] = {}) => MwcAwaiting(mwc) # {}
        /\ hPc = "images" <=> mwc.settled = "pending"
        /\ hPc = "responded" =>
              /\ \A i \in 1..Len(hUniqueWords) : mwc.results[i] # {}
              /\ hResponse[1].status = 200
              /\ hResponse[1].error = <<>>
              /\ hResponse[1].worksheet # <<>>
              /\ Len(hResponse[1].worksheet[1].pairs) = pairCount
              /\ ResponseWords = PairWords(hWorksheet[1].pairs)

\* a 200 response after the first word's job hit a fatal provider error, a
\* later one ran out of attempts (throttled, or never any image data), and
\* the last got its image on a second attempt
C9_Witness ==
    /\ ImagePath
    /\ hPc = "responded"
    /\ hResponse[1].status = 200
    /\ Len(hUniqueWords) = 3
    /\ JobImage(1).error = <<ApiKeyMessage>>
    /\ \/ JobImage(2).error = <<ThrottledMessage>>
       \/ /\ JobImage(2).error # <<>>
          /\ JobImage(2).error[1].text = "attemptErrors.slice(-3).join"
    /\ Len(JobImage(2).debugAttempts) = 2
    /\ JobImage(3).imageDataUrl # EmptyUrl
    /\ Len(JobImage(3).debugAttempts) = 1

\* C10: on the synchronous path the response carries a missing-image warning
\* and a diagnostic listing the missing words exactly when some unique word's
\* job ended without an image; the diagnostic lists exactly those words, and
\* the response carries the full worksheet however many words are missing.
C10_PartialFailureReported ==
    (ImagePath /\ hPc = "responded") =>
        /\ hResponse[1].status = 200
        /\ hResponse[1].imageWarning # <<>> <=> WordsWithoutImage # {}
        /\ hResponse[1].imageDiagnostics # <<>> <=> WordsWithoutImage # {}
        /\ WordsWithoutImage # {} =>
              /\ Range(hResponse[1].imageDiagnostics[1].missingWords) = WordsWithoutImage
              /\ hResponse[1].imageWarning[1].missing = Cardinality(WordsWithoutImage)
              /\ hResponse[1].imageWarning[1].total = Len(hUniqueWords)
        /\ hResponse[1].worksheet # <<>>
        /\ Len(hResponse[1].worksheet[1].pairs) = pairCount
        /\ ResponseWords = PairWords(hWorksheet[1].pairs)

\* every unique word failed, and the response is a 200 with all the pairs,
\* a warning and the diagnostic
C10_Witness ==
    /\ ImagePath
    /\ hPc = "responded"
    /\ Len(hUniqueWords) >= 3
    /\ WordsWithoutImage = Range(hUniqueWords)
    /\ hResponse[1].status = 200
    /\ Len(hResponse[1].worksheet[1].pairs) = pairCount
    /\ hResponse[1].imageWarning # <<>>
    /\ Len(hResponse[1].imageDiagnostics[1].missingWords) = Len(hUniqueWords)

\* the card sides of the pairs of the handler's response, left then right
ResponseSlots ==
    LET pairs == hResponse[1].worksheet[1].pairs IN
    [i \in 1..(2 * Len(pairs)) |->
        IF i % 2 = 1 THEN pairs[(i + 1) \div 2].left ELSE pairs[i \div 2].right]

\* the distinct cleaned words of the worksheet text generation returned
CleanedWorksheetWords ==
    {cleanWord(Str(word)) : word \in Range(PairWords(hWorksheet[1].pairs))}

\* C11: synchronous full generation runs exactly one image job for each
\* distinct cleaned word of the worksheet, and in the merged response any two
\* card sides that stand for the same cleaned word (the word one job was run
\* for) carry the identical image reference.
C11_OneJobPerUniqueWord ==
    (ImagePath /\ hPc = "responded") =>
        /\ Range(hUniqueWords) = CleanedWorksheetWords
        /\ Len(hUniqueWords) = Cardinality(CleanedWorksheetWords)
        /\ \A i \in 1..Len(hUniqueWords) :
              /\ Cardinality(mwc.results[i]) = 1
              /\ \A v \in mwc.results[i] : v.word = hUniqueWords[i]
        /\ \A a, b \in Range(ResponseSlots) :
              cleanWord(Str(a.word)) = cleanWord(Str(b.word))
                  => a.imageDataUrl = b.imageDataUrl

\* C12: a worksheet request with deferImages = true starts no image batch and
\* issues no image-provider call at any point of the request, and once the
\* text worksheet is resolved it has answered 200 with deferredImages = true
\* and the pairs of that worksheet, every left and right image reference and
\* media type empty, with no image warning.
C12_DeferredNoImageCall ==
    hBody.deferImages =>
        /\ mwc = MwcNotCalled
        /\ hJobs = <<>>
        /\ hImageCalls = <<>>
        /\ hPc \in {"idle", "text", "responded"}
        /\ tPc = "returned" =>
              /\ hPc = "responded"
              /\ hResponse[1].status = 200
              /\ hResponse[1].error = <<>>
              /\ hResponse[1].deferredImages
              /\ hResponse[1].usedImageModels = <<>>
              /\ hResponse[1].imageWarning = <<>>
              /\ hResponse[1].imageDiagnostics = <<>>
              /\ Len(ResponseSlots) = 2 * pairCount
              /\ ResponseWords = PairWords(hWorksheet[1].pairs)
              /\ hWorksheet[1] = tReturn[1].worksheet
              /\ \A i \in 1..Len(ResponseSlots) :
                    /\ ResponseSlots[i].imageDataUrl = EmptyUrl
                    /\ ResponseSlots[i].mimeType = ""

\* a deferred request answered with the draft of a worksheet whose words
\* repeat
C12_Witness ==
    /\ hBody.deferImages
    /\ tPc = "returned"
    /\ hPc = "responded"
    /\ hResponse[1].deferredImages
    /\ Len(ResponseSlots) = 6
    /\ Cardinality(Range(ResponseWords)) < 6
    /\ \A i \in 1..Len(ResponseSlots) : ResponseSlots[i].imageDataUrl = EmptyUrl

\* a step of run t's handleGenerate from its text response on
TextStepOf(t) == runs[t].pc = "text" /\ runs'[t].pc # "text"

HydratedWords(run) ==
    {run.d.items[i] : i \in {j \in 1..Len(run.d.items) : run.d.results[j] # {}}}
        \ Range(run.failedWords)

\* the image references the provider samples deliver
DeliveredImages ==
    {sanitizeImageDataUrl(resp.imageDataUrl) : resp \in AppImageResponses} \ {EmptyUrl}

\* the card sides of the worksheet and the cards of both columns
WorksheetSides ==
    {worksheet[1].pairs[i].left : i \in 1..Len(worksheet[1].pairs)}
        \union {worksheet[1].pairs[i].right : i \in 1..Len(worksheet[1].pairs)}

ColumnCards == Range(cards[1].left) \union Range(cards[1].right)

\* C14: while the current run hydrates and after it, whatever the order in
\* which the jobs of its words complete, a slot of the worksheet or of the
\* cards holds an image exactly when the job of its word has ended with one:
\* no completion drops or overwrites what another word's completion wrote.
C14_NoLostHydrationWrites ==
    (generationRunRef \in DOMAIN runs /\ runs[generationRunRef].pc \in {"hydrating", "done"}) =>
        LET hydrated == HydratedWords(runs[generationRunRef]) IN
        /\ worksheet # <<>>
        /\ cards # <<>>
        /\ \A side \in WorksheetSides :
              /\ side.imageDataUrl # EmptyUrl <=> side.word \in hydrated
              /\ side.imageDataUrl \in DeliveredImages \union {EmptyUrl}
        /\ \A card \in ColumnCards :
              /\ card.imageDataUrl # EmptyUrl <=> card.word \in hydrated
              /\ card.imageDataUrl \in DeliveredImages \union {EmptyUrl}

\* both words of the current run were requested at the same time and both
\* jobs have ended with an image; every slot of either word holds one
C14_Witness ==
    /\ generationRunRef \in DOMAIN runs
    /\ runs[generationRunRef].pc = "done"
    /\ Len(runs[generationRunRef].d.items) = 2
    /\ Cardinality(DOMAIN runs[generationRunRef].d.workers) = 2
    /\ HydratedWords(runs[generationRunRef]) = Range(runs[generationRunRef].d.items)
    /\ \A side \in WorksheetSides : side.imageDataUrl \in DeliveredImages
    /\ \A card \in ColumnCards : card.imageDataUrl \in DeliveredImages
    /\ Cardinality({side.word : side \in WorksheetSides}) = 2

\* C15: the run token is monotonic: no step decreases generationRunRef, a
\* start of a generation strictly increases it and hands the new value to its
\* run as runToken, above the token of every earlier run, and a run's token
\* never changes afterwards.
C15_RunTokenMonotonic ==
    [][/\ generationRunRef' >= generationRunRef
       /\ Len(runs') >= Len(runs)
       /\ \A t \in DOMAIN runs : runs'[t].token = runs[t].token
       /\ Len(runs') > Len(runs) =>
             /\ generationRunRef' > generationRunRef
             /\ runs'[Len(runs')].token = generationRunRef'
             /\ \A t \in DOMAIN runs : runs[t].token < runs'[Len(runs')].token]_vars

\* a second generation started while the first run's hydration was still
\* going on, and both runs have moved on since
C15_Witness ==
    /\ Len(runs) = 2
    /\ generationRunRef = 2
    /\ runs[1].token = 1
    /\ runs[2].token = 2
    /\ runs[1].pc = "done"
    /\ runs[1].discarded # {}
    /\ runs[2].pc = "hydrating"
    /\ runs[2].completed = 1

\* C16: for a worker budget of at least 1, in every state of a call of
\* mapWithConcurrency the mapper calls in flight are at most
\* min(concurrency, items.length), each on an item of its own; for a list
\* that is not empty that minimum is the number of workers spawned.
C16_BoundedConcurrency ==
    (dConcurrency >= 1 /\ mwc.settled # "notCalled") =>
        /\ Cardinality(MwcAwaiting(mwc)) <= Min(dConcurrency, Len(dItems))
        /\ \A v, w \in MwcAwaiting(mwc) : mwc.workers[v].index = mwc.workers[w].index => v = w
        /\ Len(dItems) >= 1 => Len(mwc.workers) = Min(dConcurrency, Len(dItems))

\* more items than budget: the budget is used up to the last worker while
\* results are already stored and items are still unclaimed
C16_Witness ==
    /\ mwc.settled = "pending"
    /\ dConcurrency >= 2
    /\ Len(dItems) > dConcurrency + 1
    /\ Cardinality(MwcAwaiting(mwc)) = dConcurrency
    /\ \E i \in 1..Len(dItems) : mwc.results[i] # {}
    /\ mwc.nextIndex < Len(dItems)

\* ---------------------------------------------------------------------
\* SpecNormalize: normalizeWordWorksheet (part_003) and normalizeWorksheet
\* (App.tsx) applied to one parsed JSON payload.  A payload entry is
\*   [t: "object" | "null", rhymeSound, leftWord, rightWord: value,
\*    left, right: side]
\* of which the route reads leftWord || left.word and the client left.word
\* and left.imageDataUrl.
\* ---------------------------------------------------------------------
MaxEntries == 6

PayloadEntry(rhymeSound, leftWord, left, rightWord, right) ==
    [t |-> "object", rhymeSound |-> rhymeSound, leftWord |-> leftWord, left |-> left,
     rightWord |-> rightWord, right |-> right]

NullPayloadEntry ==
    [t |-> "null", rhymeSound |-> Undefined, leftWord |-> Undefined, left |-> NoSide,
     rightWord |-> Undefined, right |-> NoSide]

\* an entry in both shapes with an image, an entry in the nested shape whose
\* words need cleaning, and null
PayloadEntries ==
    {PayloadEntry(Str(<<"a", "t">>),
                  Str(<<"c", "a", "t">>),
                  ClientSide(Str(<<"c", "a", "t">>),
                             <<DataUrl("image/png", <<"A", "A", "=">>)>>, "image/png"),
                  Str(<<"h", "a", "t">>),
                  ClientSide(Str(<<"h", "a", "t">>), <<>>, "")),
     PayloadEntry(Undefined,
                  Undefined,
                  ClientSide(Str(<<" ", "d", "o", "g", "1">>), <<>>, ""),
                  Undefined,
                  ClientSide(Str(<<"h", "o", "g", "!">>), <<>>, "")),
     NullPayloadEntry}

RECURSIVE EntrySequences(_)
\* the sequences of at most n payload entries
EntrySequences(n) ==
    IF n = 0 THEN {<<>>}
    ELSE LET shorter == EntrySequences(n - 1) IN
         shorter \union {Append(s, e) : s \in {x \in shorter : Len(x) = n - 1},
                                        e \in PayloadEntries}

\* payloads: an object with a pairs array, an object without one, null, a number
Payloads ==
    {[t |-> "object", title |-> Str(<<" ", "Rhymes", " ">>), instruction |-> Undefined,
      language |-> Str(<<>>), pairsIsArray |-> TRUE, pairs |-> pairs] :
        pairs \in EntrySequences(MaxEntries)}
    \union {[NoJson EXCEPT !.t = kind] : kind \in {"object", "null", "number"}}

\* the payload as normalizeWordWorksheet reads it
ServerView(payload) ==
    [payload EXCEPT !.pairs =
        [i \in 1..Len(@) |->
            IF @[i].t = "null" THEN NullEntry
            ELSE Entry(@[i].rhymeSound, @[i].leftWord, @[i].left.word,
                       @[i].rightWord, @[i].right.word)]]

\* the payload as normalizeWorksheet reads it
ClientView(payload) ==
    [payload EXCEPT !.pairs =
        [i \in 1..Len(@) |->
            IF @[i].t = "null" THEN NullClientEntry
            ELSE ClientEntry(@[i].rhymeSound, @[i].left, @[i].right)]]

InitNormalize ==
    /\ normCandidate \in Payloads
    /\ normCount \in PairCountOptions
    /\ NormalizeNotCalled
    /\ IdleCleanWord /\ IdleSanitize
    /\ IdleDispatch /\ IdleClassify /\ IdleText /\ IdleHandler /\ IdleApp /\ IdleFlows

NormalizeOnServer ==
    /\ normServer = <<>>
    /\ normServer' = <<normalizeWordWorksheet(ServerView(normCandidate), English, normCount)>>
    /\ UNCHANGED <<normCandidate, normCount, normClient, wordRaw, wordCleaned, wordRecleaned,
                   urlRaw, urlSanitized, urlResanitized>>
    /\ UNCHANGED <<dispatchVars, classifyVars, textVars, handlerVars, appVars>>
    /\ UNCHANGED flowVars

NormalizeOnClient ==
    /\ normClient = <<>>
    /\ normClient' = <<normalizeWorksheet(ClientView(normCandidate), English, normCount)>>
    /\ UNCHANGED <<normCandidate, normCount, normServer, wordRaw, wordCleaned, wordRecleaned,
                   urlRaw, urlSanitized, urlResanitized>>
    /\ UNCHANGED <<dispatchVars, classifyVars, textVars, handlerVars, appVars>>
    /\ UNCHANGED flowVars

NextNormalize == NormalizeOnServer \/ NormalizeOnClient

SpecNormalize == InitNormalize /\ [][NextNormalize]_vars

\* the payload is an object carrying at least pairCount entries
PayloadAccepted ==
    /\ normCandidate.t = "object"
    /\ normCandidate.pairsIsArray
    /\ Len(normCandidate.pairs) >= normCount

\* the words of a normalized pair
PairOfWords(pair) == <<pair.left.word, pair.right.word>>

\* what the route makes of payload entry i on its own
ServerPairOf(i) ==
    normalizeWordWorksheet([ServerView(normCandidate) EXCEPT !.pairs = <<@[i]>>],
                           English, 1).value[1].pairs[1]

\* what the client makes of payload entry i on its own
ClientPairOf(i) ==
    normalizeWorksheet([ClientView(normCandidate) EXCEPT !.pairs = <<@[i]>>],
                       English, 1).value

\* C17: either normalizer fails exactly when the payload is not an object or
\* carries fewer than pairCount entries; otherwise it returns exactly
\* pairCount pairs, pair i being what the function makes of entry i of the
\* payload (the first pairCount entries in their order, the rest dropped).
C17_NormalizeKeepsFirstPairs ==
    /\ normServer # <<>> =>
          /\ normServer[1].threw # <<>> <=> ~PayloadAccepted
          /\ PayloadAccepted =>
                /\ Len(normServer[1].value[1].pairs) = normCount
                /\ \A i \in 1..normCount :
                      PairOfWords(normServer[1].value[1].pairs[i]) = PairOfWords(ServerPairOf(i))
    /\ normClient # <<>> =>
          /\ normClient[1].threw # <<>> <=> ~PayloadAccepted
          /\ PayloadAccepted =>
                /\ Len(normClient[1].value[1].pairs) = normCount
                /\ \A i \in 1..normCount :
                      /\ ClientPairOf(i) # <<>>
                      /\ normClient[1].value[1].pairs[i].left = ClientPairOf(i)[1].pairs[1].left
                      /\ normClient[1].value[1].pairs[i].right = ClientPairOf(i)[1].pairs[1].right

\* ---------------------------------------------------------------------
\* SpecCleanWord: cleanWord applied to an argument, then to its own result.
\* ---------------------------------------------------------------------
MaxWordLen == 3

\* a letter, a digit, the underscore, a space, a tab, an allowed punctuation
\* mark and a character of no class the function keeps
WordAlphabet == {"a", "7", "_", " ", "\t", "-", "!"}

ControlChars == {"\t"}

RECURSIVE WordsUpTo(_)
\* the strings of at most n characters
WordsUpTo(n) ==
    IF n = 0 THEN {<<>>}
    ELSE LET shorter == WordsUpTo(n - 1) IN
         shorter \union {Append(s, c) : s \in {x \in shorter : Len(x) = n - 1},
                                        c \in WordAlphabet}

InitCleanWord ==
    /\ wordRaw \in {Str(s) : s \in WordsUpTo(MaxWordLen)} \union {Undefined, NumberValue}
    /\ CleanWordNotCalled
    /\ IdleNormalize /\ IdleSanitize
    /\ IdleDispatch /\ IdleClassify /\ IdleText /\ IdleHandler /\ IdleApp /\ IdleFlows

CleanWordCall ==
    /\ wordCleaned = <<>>
    /\ wordCleaned' = <<cleanWord(wordRaw)>>
    /\ UNCHANGED <<normCandidate, normCount, normServer, normClient, wordRaw, wordRecleaned,
                   urlRaw, urlSanitized, urlResanitized>>
    /\ UNCHANGED <<dispatchVars, classifyVars, textVars, handlerVars, appVars>>
    /\ UNCHANGED flowVars

CleanWordAgain ==
    /\ wordCleaned # <<>>
    /\ wordRecleaned = <<>>
    /\ wordRecleaned' = <<cleanWord(Str(wordCleaned[1]))>>
    /\ UNCHANGED <<normCandidate, normCount, normServer, normClient, wordRaw, wordCleaned,
                   urlRaw, urlSanitized, urlResanitized>>
    /\ UNCHANGED <<dispatchVars, classifyVars, textVars, handlerVars, appVars>>
    /\ UNCHANGED flowVars

NextCleanWord == CleanWordCall \/ CleanWordAgain

SpecCleanWord == InitCleanWord /\ [][NextCleanWord]_vars

\* C18: for every argument, a string or not, the result of cleanWord is not
\* empty and holds no digit and no control character, and cleanWord applied
\* to that result returns it unchanged.
C18_CleanWordStable ==
    /\ wordCleaned # <<>> =>
          /\ wordCleaned[1] # <<>>
          /\ \A c \in Range(wordCleaned[1]) : c \notin Digits \union ControlChars
    /\ wordRecleaned # <<>> => wordRecleaned[1] = wordCleaned[1]

\* ---------------------------------------------------------------------
\* SpecSanitize: sanitizeImageDataUrl applied to an argument, then to its
\* own result.
\* ---------------------------------------------------------------------
MaxUrlLen == 3

\* a base64 character, a character of URLs only, whitespace, and a character
\* neither pattern takes in a payload
UrlAlphabet == {"A", "-", " ", "\t", "<"}

RECURSIVE UrlTextsUpTo(_)
\* the strings of at most n characters
UrlTextsUpTo(n) ==
    IF n = 0 THEN {<<>>}
    ELSE LET shorter == UrlTextsUpTo(n - 1) IN
         shorter \union {Append(s, c) : s \in {x \in shorter : Len(x) = n - 1},
                                        c \in UrlAlphabet}

\* what a string starts with after its leading whitespace: a data reference
\* of an image type the pattern lists (in either case), of one it does not
\* list, of no image type, an http(s) URL, another scheme, or none of these
UrlHeads ==
    {[scheme |-> "data", mime |-> mimeType] :
        mimeType \in {"image/png", "image/PNG", "image/webp", "image/gif", "text/html"}}
    \union {[scheme |-> scheme, mime |-> ""] : scheme \in {"http", "https", "javascript", ""}}

UrlSamples ==
    {[lead |-> lead, scheme |-> head.scheme, mime |-> head.mime, data |-> data] :
        lead \in {<<>>, <<" ">>}, head \in UrlHeads, data \in UrlTextsUpTo(MaxUrlLen)}

InitSanitize ==
    /\ urlRaw \in {<<url>> : url \in UrlSamples} \union {<<>>}
    /\ SanitizeNotCalled
    /\ IdleNormalize /\ IdleCleanWord
    /\ IdleDispatch /\ IdleClassify /\ IdleText /\ IdleHandler /\ IdleApp /\ IdleFlows

SanitizeCall ==
    /\ urlSanitized = <<>>
    /\ urlSanitized' = <<sanitizeImageDataUrl(urlRaw)>>
    /\ UNCHANGED <<normCandidate, normCount, normServer, normClient, wordRaw, wordCleaned,
                   wordRecleaned, urlRaw, urlResanitized>>
    /\ UNCHANGED <<dispatchVars, classifyVars, textVars, handlerVars, appVars>>
    /\ UNCHANGED flowVars

SanitizeAgain ==
    /\ urlSanitized # <<>>
    /\ urlResanitized = <<>>
    /\ urlResanitized' = <<sanitizeImageDataUrl(urlSanitized)>>
    /\ UNCHANGED <<normCandidate, normCount, normServer, normClient, wordRaw, wordCleaned,
                   wordRecleaned, urlRaw, urlSanitized>>
    /\ UNCHANGED <<dispatchVars, classifyVars, textVars, handlerVars, appVars>>
    /\ UNCHANGED flowVars

NextSanitize == SanitizeCall \/ SanitizeAgain

SpecSanitize == InitSanitize /\ [][NextSanitize]_vars

\* the image-reference grammar: the two patterns of sanitizeImageDataUrl
MatchesImageGrammar(value) == MatchesDataImage(value) \/ MatchesHttpUrl(value)

EndsInWhitespace(value) ==
    value.data # <<>> /\ value.data[Len(value.data)] \in WhitespaceChars

\* C19 as stated: the result is the empty string or matches the grammar, and
\* an argument that matches the grammar is returned unchanged.
C19_ValidReturnedUnchanged ==
    urlSanitized # <<>> =>
        /\ urlSanitized[1] = EmptyUrl \/ MatchesImageGrammar(urlSanitized[1])
        /\ (urlRaw # <<>> /\ MatchesImageGrammar(urlRaw[1])) => urlSanitized[1] = urlRaw[1]

\* C19 as amended: the result is the empty string or matches the grammar; an
\* argument that matches the grammar and does not end in whitespace is
\* returned unchanged, one that ends in whitespace is returned without it
\* when it still matches and refused otherwise; and the function returns its
\* own result unchanged.
C19_SanitizedMatchesGrammar ==
    /\ urlSanitized # <<>> =>
          /\ urlSanitized[1] = EmptyUrl \/ MatchesImageGrammar(urlSanitized[1])
          /\ urlSanitized[1] # EmptyUrl => ~EndsInWhitespace(urlSanitized[1])
          /\ (urlRaw # <<>> /\ MatchesImageGrammar(urlRaw[1])) =>
                /\ ~EndsInWhitespace(urlRaw[1]) => urlSanitized[1] = urlRaw[1]
                /\ EndsInWhitespace(urlRaw[1]) =>
                      urlSanitized[1] = IF MatchesImageGrammar(TrimUrl(urlRaw[1]))
                                        THEN TrimUrl(urlRaw[1]) ELSE EmptyUrl
    /\ urlResanitized # <<>> => urlResanitized[1] = urlSanitized[1]

\* a data reference in upper case with whitespace inside its payload came
\* back unchanged, twice
C19_Witness ==
    /\ urlRaw # <<>>
    /\ urlRaw[1].scheme = "data"
    /\ urlRaw[1].mime = "image/PNG"
    /\ urlRaw[1].data = <<"A", " ", "A">>
    /\ urlSanitized = urlRaw
    /\ urlResanitized = urlRaw

\* ---------------------------------------------------------------------
\* SpecAppImages: generations, hydration and card refreshes with provider
\* values of every kind: references the sanitizer takes, takes after a trim,
\* and refuses.
\* ---------------------------------------------------------------------
ScriptUrl == [lead |-> <<>>, scheme |-> "javascript", mime |-> "", data |-> <<"A">>]

PaddedPng == [lead |-> <<" ">>, scheme |-> "data", mime |-> "image/png", data |-> <<"A", " ">>]

HttpsUrl == FileUri(<<"A", "-">>)

\* the route's answer to a request without deferImages: a worksheet whose
\* sides carry what the image providers returned
FilledResponse ==
    LET draft == CHOOSE resp \in AppTextResponses(3) :
                    /\ resp.status = 200
                    /\ resp.worksheet[1].pairs[1].right.word = <<"b", "a", "t">>
        Fill(pairs) ==
            [pairs EXCEPT ![1].left.imageDataUrl = ScriptUrl,
                          ![1].right.imageDataUrl = DataUrl("image/png", <<"A", "A", "=">>),
                          ![2].left.imageDataUrl = PaddedPng,
                          ![2].right.imageDataUrl = DataUrl("image/gif", <<"A">>),
                          ![3].left.imageDataUrl = HttpsUrl]
    IN [draft EXCEPT !.deferredImages = FALSE, !.worksheet = <<[@[1] EXCEPT !.pairs = Fill(@)]>>]

ImagesTextResponses ==
    {resp \in AppTextResponses(3) :
        resp.status = 200 /\ resp.worksheet[1].pairs[1].right.word = <<"h", "a", "t">>}
    \union {FilledResponse}

ImagesHydrationResponses == {resp \in AppImageResponses : resp.status = 200}

RefreshResponses ==
    {RefreshResponseOf(200, <<DataUrl("image/png", <<"A", "A", "=">>)>>, Undefined, <<>>),
     RefreshResponseOf(200, <<HttpsUrl>>, Str(<<"r", "a", "t", " ", "2">>), <<>>),
     RefreshResponseOf(200, <<PaddedPng>>, Undefined, <<>>),
     RefreshResponseOf(200, <<ScriptUrl>>, Str(<<"r", "a", "t">>), <<>>),
     RefreshResponseOf(200, <<>>, Undefined, <<>>),
     RefreshResponseOf(502, <<>>, Undefined, <<ApiKeyMessage>>)}

\* the cards on display
DisplayedCards ==
    IF cards = <<>> THEN {} ELSE Range(cards[1].left) \union Range(cards[1].right)

NextAppImages ==
    \/ \E count \in AppPairCounts : HandleGenerate(count)
    \/ \E runToken \in 1..MaxRuns, resp \in ImagesTextResponses :
         GenerateResponse(runToken, resp, [i \in 1..3 |-> i])
    \/ \E runToken \in 1..MaxRuns, w \in 1..hydrationConcurrency :
         \E resp \in ImagesHydrationResponses : HydrationResponse(runToken, w, resp)
    \/ \E card \in DisplayedCards : HandleRefreshCardImage(card)
    \/ \E resp \in RefreshResponses : RefreshResponse(resp)

SpecAppImages == InitApp /\ [][NextAppImages]_vars

\* empty, or one of the two forms of the image-reference grammar
ImageReferenceOk(value) == value = EmptyUrl \/ MatchesImageGrammar(value)

\* C20: whatever generations, hydration completions and card refreshes have
\* happened, every image reference held by the worksheet and by the cards is
\* empty or matches the image-reference grammar.
C20_StateImagesSanitized ==
    /\ worksheet # <<>> => \A side \in WorksheetSides : ImageReferenceOk(side.imageDataUrl)
    /\ cards # <<>> => \A card \in ColumnCards : ImageReferenceOk(card.imageDataUrl)

\* a worksheet that came with images, good and bad, followed by a refresh that
\* gave a card an https reference and a refresh whose value was refused
C20_Witness ==
    /\ worksheet # <<>>
    /\ cards # <<>>
    /\ refreshCount = 2
    /\ refreshCall = <<>>
    /\ error # <<>>
    /\ \E side \in WorksheetSides : side.imageDataUrl = HttpsUrl /\ side.word = <<"r", "a", "t", " ">>
    /\ \E side \in WorksheetSides : side.imageDataUrl = DataUrl("image/png", <<"A">>)
    /\ \E side \in WorksheetSides : side.imageDataUrl = EmptyUrl
    /\ \E card \in ColumnCards : card.imageDataUrl = HttpsUrl

\* ---------------------------------------------------------------------
\* SpecAppCounts: generations of 3 and of 4 pairs, answered by worksheets of
\* 3 and of 4 pairs, with hydration and card refreshes.
\* ---------------------------------------------------------------------
CountsPairCounts == {3, 4}

\* model output of five entries, the words of CatHatEntries
FiveEntries ==
    CatHatEntries \o
    <<Entry(Str(<<"a", "t">>), Str(<<"h", "a", "t">>), Undefined,
            Str(<<"c", "a", "t">>), Undefined),
      Entry(Str(<<"a", "t">>), Str(<<"c", "a", "t">>), Undefined,
            Str(<<"h", "a", "t">>), Undefined)>>

\* the route's deferred answers to requests of 3 and of 4 pairs
CountsTextResponses ==
    {HandlerDeferredResponse(
         [worksheet |-> normalizeWordWorksheet([WorksheetJson(0) EXCEPT !.pairs = FiveEntries],
                                               English, count).value[1],
          usedModel |-> ModelName(0, "gemini-2.5-pro")]) : count \in CountsPairCounts}

CountsHydrationResponses ==
    {SingleWordResponse(200, <<DataUrl("image/png", <<"A", "A", "=">>)>>, <<>>),
     SingleWordResponse(502, <<>>, <<ApiKeyMessage>>)}

CountsRefreshResponses ==
    {RefreshResponseOf(200, <<HttpsUrl>>, Str(<<"r", "a", "t">>), <<>>),
     RefreshResponseOf(502, <<>>, Undefined, <<ApiKeyMessage>>)}

NextAppCounts ==
    \/ \E count \in CountsPairCounts : HandleGenerate(count)
    \/ \E runToken \in DOMAIN runs, resp \in CountsTextResponses :
         GenerateResponse(runToken, resp,
                          [i \in 1..runs[runToken].pairCount |-> runs[runToken].pairCount + 1 - i])
    \/ \E runToken \in 1..MaxRuns, w \in 1..hydrationConcurrency :
         \E resp \in CountsHydrationResponses : HydrationResponse(runToken, w, resp)
    \/ \E card \in DisplayedCards : HandleRefreshCardImage(card)
    \/ \E resp \in CountsRefreshResponses : RefreshResponse(resp)

SpecAppCounts == InitApp /\ [][NextAppCounts]_vars

\* the runs whose worksheet was installed
InstalledRuns == {t \in DOMAIN runs : runs[t].source # <<>>}

\* C21: as long as no generation has installed a worksheet there is none; from
\* then on the worksheet on display has as many pairs as the latest generation
\* that installed one asked for, and each column has that many cards, whatever
\* hydration completions and card refreshes have happened since.
C21_PairCountKept ==
    /\ InstalledRuns = {} => worksheet = <<>> /\ cards = <<>>
    /\ \A t \in InstalledRuns :
          (\A u \in InstalledRuns : u <= t) =>
              /\ worksheet # <<>> /\ cards # <<>>
              /\ Len(worksheet[1].pairs) = runs[t].pairCount
              /\ Len(cards[1].left) = runs[t].pairCount
              /\ Len(cards[1].right) = runs[t].pairCount

\* a generation of 4 pairs followed by one of 3 pairs whose hydration is over,
\* with two refreshes done, one of which gave a card another word
C21_Witness ==
    /\ Len(runs) = 2
    /\ runs[1].pairCount = 4 /\ runs[1].source # <<>>
    /\ runs[2].pairCount = 3 /\ runs[2].pc = "done"
    /\ refreshCount = 2 /\ refreshCall = <<>>
    /\ worksheet # <<>>
    /\ Len(worksheet[1].pairs) = 3
    /\ \E side \in WorksheetSides : side.word = <<"r", "a", "t">>
    /\ \E side \in WorksheetSides : side.imageDataUrl = DataUrl("image/png", <<"A", "A", "=">>)

\* ---------------------------------------------------------------------
\* sanitizeSvg (part_001:179-241).  Its argument is
\*   [t: "undefined" | "string", mentionsSvg, wellFormed, nodes]
\* where, for a string, mentionsSvg says that the text includes '<svg',
\* wellFormed that it is well-formed XML, and nodes are the elements written
\* in it, in document order: [tag, attrs, parent], the root first with parent
\* 0.  attrs is a set of [name, value]; a name is a sequence of characters, a
\* value one of the strings read by the operators below.
\* ---------------------------------------------------------------------
Attr(name, value) == [name |-> name, value |-> value]

Element(tag, attrs, parent) == [tag |-> tag, attrs |-> attrs, parent |-> parent]

\* String.prototype.toLowerCase on the characters of the names used
LowerChar(c) ==
    CASE c = "B" -> "b" [] c = "C" -> "c" [] c = "E" -> "e" [] c = "F" -> "f"
      [] c = "H" -> "h" [] c = "I" -> "i" [] c = "K" -> "k" [] c = "L" -> "l"
      [] c = "N" -> "n" [] c = "O" -> "o" [] c = "P" -> "p" [] c = "R" -> "r"
      [] c = "S" -> "s" [] c = "V" -> "v" [] c = "G" -> "g" [] OTHER -> c

LowerName(name) == [i \in 1..Len(name) |-> LowerChar(name[i])]

\* lines 66-81
SVG_TAG_ALLOWLIST ==
    {<<"s", "v", "g">>, <<"g">>, <<"p", "a", "t", "h">>, <<"c", "i", "r", "c", "l", "e">>,
     <<"e", "l", "l", "i", "p", "s", "e">>, <<"r", "e", "c", "t">>, <<"l", "i", "n", "e">>,
     <<"p", "o", "l", "y", "l", "i", "n", "e">>, <<"p", "o", "l", "y", "g", "o", "n">>,
     <<"d", "e", "f", "s">>, <<"c", "l", "i", "p", "P", "a", "t", "h">>, <<"m", "a", "s", "k">>,
     <<"t", "i", "t", "l", "e">>, <<"d", "e", "s", "c">>}

\* name.startsWith('on')
StartsWithOn(name) == Len(name) >= 2 /\ name[1] = "o" /\ name[2] = "n"

NameHref == <<"h", "r", "e", "f">>

NameXlinkHref == <<"x", "l", "i", "n", "k", ":", "h", "r", "e", "f">>

\* line 210: the attributes removed whatever their value
IsActiveAttribute(name) ==
    StartsWithOn(name) \/ name = NameHref \/ name = NameXlinkHref

\* line 215: /url\(/i.test(value) && !value.includes('#')
IsRemoteUrlValue(value) == value \in {"url(http://x)", "URL(//x)"}

\* Number(raw) in hundredths, <<>> for what is not a finite number
NumberOf(raw) ==
    CASE raw = "0" -> <<0>> [] raw = "5" -> <<500>> [] raw = "50" -> <<5000>>
      [] raw = "96" -> <<9600>> [] raw = "100" -> <<10000>> [] raw = "0.05" -> <<5>>
      [] OTHER -> <<>>

\* element.getAttribute(name): <<>> for null
getAttribute(element, name) ==
    IF \E a \in element.attrs : a.name = name
    THEN <<(CHOOSE a \in element.attrs : a.name = name).value>>
    ELSE <<>>

removeAttribute(element, name) ==
    [element EXCEPT !.attrs = {a \in @ : a.name # name}]

setAttribute(element, name, value) ==
    [element EXCEPT !.attrs = {a \in @ : a.name # name} \union {Attr(name, value)}]

DefaultViewBox == [x |-> 0, y |-> 0, width |-> 10000, height |-> 10000]

\* parseViewBox (lines 103-123), in hundredths
parseViewBox(value) ==
    IF value = <<>> \/ value = <<"">> THEN DefaultViewBox
    ELSE CASE value[1] = "0 0 100 100" -> DefaultViewBox
           [] value[1] = "0 0 50 50" -> [x |-> 0, y |-> 0, width |-> 5000, height |-> 5000]
           [] OTHER -> DefaultViewBox

\* getNumericAttribute (lines 125-133)
getNumericAttribute(element, attributeName, fallbackValue) ==
    LET raw == getAttribute(element, attributeName) IN
    IF raw = <<>> \/ raw = <<"">> THEN fallbackValue
    ELSE IF NumberOf(raw[1]) = <<>> THEN fallbackValue ELSE NumberOf(raw[1])[1]

\* isLikelyBackgroundRect (lines 135-177)
isLikelyBackgroundRect(element, viewBox) ==
    LET stroke == getAttribute(element, <<"s", "t", "r", "o", "k", "e">>)
        fill == getAttribute(element, <<"f", "i", "l", "l">>)
        fillOpacity == getNumericAttribute(element,
                           <<"f", "i", "l", "l", "-", "o", "p", "a", "c", "i", "t", "y">>, 100)
        rectX == getNumericAttribute(element, <<"x">>, viewBox.x)
        rectY == getNumericAttribute(element, <<"y">>, viewBox.y)
        rectWidth == getNumericAttribute(element, <<"w", "i", "d", "t", "h">>, viewBox.width)
        rectHeight == getNumericAttribute(element, <<"h", "e", "i", "g", "h", "t">>,
                                          viewBox.height)
    IN /\ LowerName(element.tag) = <<"r", "e", "c", "t">>
       /\ ~(stroke # <<>> /\ stroke[1] \notin {"", "none"})
       /\ ~(fill = <<>> \/ fill[1] \in {"", "none", "transparent"})
       /\ ~(fillOpacity < 8)
       /\ ~(rectWidth <= 0 \/ rectHeight <= 0)
       /\ rectWidth * 100 >= viewBox.width * 95
       /\ rectHeight * 100 >= viewBox.height * 95
       /\ rectX * 100 <= viewBox.x * 100 + viewBox.width * 5
       /\ rectY * 100 <= viewBox.y * 100 + viewBox.height * 5

\* line 52: the fixed placeholder
FALLBACK_SVG == [kind |-> "fallback", nodes |-> <<>>]

\* what DOMParser (line 185) makes of a string: its elements, or a document
\* holding a parsererror element
ParsedDocument(rawSvg) ==
    IF rawSvg.wellFormed THEN rawSvg.nodes
    ELSE <<Element(<<"p", "a", "r", "s", "e", "r", "e", "r", "r", "o", "r">>, {}, 0)>>

RECURSIVE InSubtreeOf(_, _, _)
\* node i is one of the nodes of the set, or below one of them
InSubtreeOf(nodes, i, tops) ==
    /\ i # 0
    /\ \/ i \in tops
       \/ InSubtreeOf(nodes, nodes[i].parent, tops)

\* lines 196-218: the elements document.createTreeWalker(root, SHOW_ELEMENT)
\* hands out through nextNode(), which starts from the root and goes on to the
\* node after it
WalkedNodes(nodes) == 2..Len(nodes)

\* lines 205-218: the attributes left on an element of an allowed tag
WalkedAttributes(element) ==
    {a \in element.attrs :
        /\ ~IsActiveAttribute(LowerName(a.name))
        /\ ~IsRemoteUrlValue(a.value)}

sanitizeSvg(rawSvg) ==
    IF rawSvg.t # "string" \/ ~rawSvg.mentionsSvg THEN FALLBACK_SVG
    ELSE
    LET parsed == ParsedDocument(rawSvg) IN
    IF \E i \in DOMAIN parsed :
          parsed[i].tag = <<"p", "a", "r", "s", "e", "r", "e", "r", "r", "o", "r">>
    THEN FALLBACK_SVG
    ELSE IF LowerName(parsed[1].tag) # <<"s", "v", "g">> THEN FALLBACK_SVG
    ELSE
    LET nodesToRemove == {i \in WalkedNodes(parsed) :
                             LowerName(parsed[i].tag) \notin SVG_TAG_ALLOWLIST}
        walked == [i \in DOMAIN parsed |->
                      IF i \in WalkedNodes(parsed) \ nodesToRemove
                      THEN [parsed[i] EXCEPT !.attrs = WalkedAttributes(parsed[i])]
                      ELSE parsed[i]]
        sized == removeAttribute(removeAttribute(walked[1], <<"w", "i", "d", "t", "h">>),
                                 <<"h", "e", "i", "g", "h", "t">>)
        spaced == setAttribute(sized, <<"x", "m", "l", "n", "s">>, "http://www.w3.org/2000/svg")
        NameViewBox == <<"v", "i", "e", "w", "B", "o", "x">>
        root == IF getAttribute(spaced, NameViewBox) \in {<<>>, <<"">>}
                THEN setAttribute(spaced, NameViewBox, "0 0 100 100")
                ELSE spaced
        viewBox == parseViewBox(getAttribute(root, NameViewBox))
        backgroundRects ==
            {i \in 2..Len(parsed) :
                /\ ~InSubtreeOf(parsed, i, nodesToRemove)
                /\ walked[i].tag = <<"r", "e", "c", "t">>
                /\ isLikelyBackgroundRect(walked[i], viewBox)}
    IN [kind |-> "markup",
        nodes |-> [i \in DOMAIN parsed |->
                      [tag |-> parsed[i].tag,
                       attrs |-> IF i = 1 THEN root.attrs ELSE walked[i].attrs,
                       parent |-> parsed[i].parent,
                       kept |-> ~InSubtreeOf(parsed, i, nodesToRemove \union backgroundRects)]]]

\* ---------------------------------------------------------------------
\* SpecSvg: sanitizeSvg applied to one argument.
\* ---------------------------------------------------------------------
MaxSvgChildren == 2

NameOnload == <<"o", "n", "l", "o", "a", "d">>

NameOnclickUpper == <<"O", "N", "C", "L", "I", "C", "K">>

NameFill == <<"f", "i", "l", "l">>

\* attributes a root element may carry
SvgRootAttributes ==
    {Attr(NameOnload, "alert(1)"), Attr(NameHref, "javascript:x"),
     Attr(<<"w", "i", "d", "t", "h">>, "100"),
     Attr(<<"v", "i", "e", "w", "B", "o", "x">>, "0 0 50 50")}

SvgRootTags == {<<"s", "v", "g">>, <<"S", "V", "G">>, <<"d", "i", "v">>}

\* children of the root, each with the elements inside it
SvgChildSamples ==
    {[tag |-> <<"p", "a", "t", "h">>,
      attrs |-> {Attr(NameOnclickUpper, "alert(1)"), Attr(NameFill, "url(http://x)"),
                 Attr(<<"d">>, "M0 0")},
      inner |-> <<>>],
     [tag |-> <<"r", "e", "c", "t">>,
      attrs |-> {Attr(NameFill, "#fff"), Attr(NameOnload, "alert(1)")},
      inner |-> <<>>],
     [tag |-> <<"r", "e", "c", "t">>,
      attrs |-> {Attr(NameFill, "#fff"), Attr(<<"w", "i", "d", "t", "h">>, "5"),
                 Attr(NameXlinkHref, "#a")},
      inner |-> <<>>],
     [tag |-> <<"s", "c", "r", "i", "p", "t">>,
      attrs |-> {Attr(NameHref, "http://x")},
      inner |-> <<[tag |-> <<"p", "a", "t", "h">>, attrs |-> {Attr(NameOnload, "alert(1)")}]>>],
     [tag |-> <<"g">>,
      attrs |-> {Attr(NameXlinkHref, "http://x"), Attr(NameFill, "url(#a)")},
      inner |-> <<[tag |-> <<"c", "i", "r", "c", "l", "e">>,
                   attrs |-> {Attr(NameOnload, "alert(1)"), Attr(NameFill, "none")}]>>],
     [tag |-> <<"s", "v", "g">>,
      attrs |-> {Attr(NameOnload, "alert(1)")},
      inner |-> <<>>]}

RECURSIVE ChildLists(_)
\* the lists of at most n children
ChildLists(n) ==
    IF n = 0 THEN {<<>>}
    ELSE LET shorter == ChildLists(n - 1) IN
         shorter \union {Append(list, child) : list \in {x \in shorter : Len(x) = n - 1},
                                               child \in SvgChildSamples}

RECURSIVE FlattenChildren(_, _)
\* the elements of a list of children in document order, after `before` nodes
FlattenChildren(children, before) ==
    IF children = <<>> THEN <<>>
    ELSE LET child == Head(children)
             me == before + 1
         IN <<Element(child.tag, child.attrs, 1)>>
            \o [k \in 1..Len(child.inner) |->
                   Element(child.inner[k].tag, child.inner[k].attrs, me)]
            \o FlattenChildren(Tail(children), me + Len(child.inner))

SvgDocument(tag, attrs, children) ==
    LET nodes == <<Element(tag, attrs, 0)>> \o FlattenChildren(children, 1) IN
    [t |-> "string",
     mentionsSvg |-> \E i \in DOMAIN nodes :
                        Len(nodes[i].tag) >= 3 /\ SubSeq(nodes[i].tag, 1, 3) = <<"s", "v", "g">>,
     wellFormed |-> TRUE,
     nodes |-> nodes]

\* what is not a document: no string, text without and with '<svg' that does
\* not parse
SvgOtherInputs ==
    {[t |-> "undefined", mentionsSvg |-> FALSE, wellFormed |-> FALSE, nodes |-> <<>>],
     [t |-> "string", mentionsSvg |-> FALSE, wellFormed |-> FALSE, nodes |-> <<>>],
     [t |-> "string", mentionsSvg |-> TRUE, wellFormed |-> FALSE, nodes |-> <<>>]}

SvgInputs ==
    SvgOtherInputs \union
    {SvgDocument(tag, attrs, children) :
        tag \in SvgRootTags, attrs \in SUBSET SvgRootAttributes,
        children \in ChildLists(MaxSvgChildren)}

InitSvg ==
    /\ svgRaw \in SvgInputs
    /\ SvgNotCalled
    /\ IdleAltWord /\ IdleRequest /\ IdleWalk /\ IdleTopic
    /\ IdleDispatch /\ IdleClassify /\ IdleText /\ IdleHandler /\ IdleApp /\ IdleFunctions

SanitizeSvgCall ==
    /\ svgSanitized = <<>>
    /\ svgSanitized' = <<sanitizeSvg(svgRaw)>>
    /\ UNCHANGED <<svgRaw, altVars, requestVars, walkVars, topicVars>>
    /\ UNCHANGED <<dispatchVars, classifyVars, textVars, handlerVars, appVars, functionVars>>

NextSvg == SanitizeSvgCall

SpecSvg == InitSvg /\ [][NextSvg]_vars

\* the argument is a string holding a well-formed document whose root is an
\* svg element, in whatever case the tag is written
IsSvgDocument(rawSvg) ==
    /\ rawSvg.t = "string"
    /\ rawSvg.wellFormed
    /\ rawSvg.nodes # <<>>
    /\ LowerName(rawSvg.nodes[1].tag) = <<"s", "v", "g">>

\* C22: no element retained in the markup sanitizeSvg returns carries an
\* attribute whose name starts with 'on', or an href or xlink:href attribute,
\* and an argument that is not a string, has no svg root or does not parse
\* gives the placeholder.
C22_SvgNoActiveAttributes ==
    svgSanitized # <<>> =>
        /\ \A i \in DOMAIN svgSanitized[1].nodes :
              svgSanitized[1].nodes[i].kept =>
                  \A a \in svgSanitized[1].nodes[i].attrs :
                      ~IsActiveAttribute(LowerName(a.name))
        /\ ~IsSvgDocument(svgRaw) => svgSanitized[1] = FALLBACK_SVG

\* ---------------------------------------------------------------------
\* generateAlternativeWord (part_003:519-578).  What callGeminiModel returned:
\*   [ok, text: "" | "prose" | "badjson" | "json",
\*    jsonT: what a "json" text parses to, "object" or "null",
\*    word: json.word]
\* ---------------------------------------------------------------------
AltResponse(ok, text, jsonT, word) == [ok |-> ok, text |-> text, jsonT |-> jsonT, word |-> word]

\* lines 561-571: the word a response gives, <<>> for `continue`
AltCandidateWord(resp, currentLower) ==
    IF ~resp.ok THEN <<>>
    ELSE IF resp.text # "json" THEN <<>>
    ELSE LET candidateWord == cleanWord(IF resp.jsonT = "object" /\ Truthy(resp.word)
                                        THEN resp.word ELSE Str(<<>>))
         IN IF candidateWord # <<>> /\ LowerName(candidateWord) # currentLower
            THEN <<candidateWord>> ELSE <<>>

MaxAltCandidates == 3

AltCurrentWords == {Str(<<"c", "a", "t">>), Str(<<"7", " ", "C", "a", "t">>)}

\* an error status, no text, text without JSON, text that does not parse, and
\* JSON texts: null, no word, an empty word, a number, a word of digits, the
\* current word in other case, another word
AltResponses ==
    {AltResponse(FALSE, "", "null", Undefined),
     AltResponse(TRUE, "", "null", Undefined),
     AltResponse(TRUE, "prose", "null", Undefined),
     AltResponse(TRUE, "badjson", "null", Undefined),
     AltResponse(TRUE, "json", "null", Undefined),
     AltResponse(TRUE, "json", "object", Undefined),
     AltResponse(TRUE, "json", "object", Str(<<>>)),
     AltResponse(TRUE, "json", "object", NumberValue),
     AltResponse(TRUE, "json", "object", Str(<<"7">>)),
     AltResponse(TRUE, "json", "object", Str(<<"C", "a", "t">>)),
     AltResponse(TRUE, "json", "object", Str(<<"b", "a", "t", "!">>))}

\* ---------------------------------------------------------------------
\* SpecAltWord: one call of generateAlternativeWord.
\* ---------------------------------------------------------------------
InitAltWord ==
    /\ altCurrentWord \in AltCurrentWords
    /\ altCandidates \in {SubSeq(TEXT_MODEL_FALLBACK_ORDER, 1, n) : n \in 1..MaxAltCandidates}
    /\ AltWordNotCalled
    /\ IdleSvg /\ IdleRequest /\ IdleWalk /\ IdleTopic
    /\ IdleDispatch /\ IdleClassify /\ IdleText /\ IdleHandler /\ IdleApp /\ IdleFunctions

\* the call up to its first await
AltWordCall ==
    /\ altPc = "notCalled"
    /\ altPc' = IF altCandidates = <<>> THEN "returned" ELSE "loop"
    /\ altReturn' = IF altCandidates = <<>> THEN <<cleanWord(altCurrentWord)>> ELSE <<>>
    /\ UNCHANGED <<altCurrentWord, altCandidates, altNext, altResponses>>
    /\ UNCHANGED <<svgVars, requestVars, walkVars, topicVars>>
    /\ UNCHANGED <<dispatchVars, classifyVars, textVars, handlerVars, appVars, functionVars>>

\* one turn of the for loop, from the response of the awaited call on
AltWordTurn(resp) ==
    /\ altPc = "loop"
    /\ altResponses' = Append(altResponses, resp)
    /\ LET currentLower == LowerName(cleanWord(altCurrentWord))
           found == AltCandidateWord(resp, currentLower)
       IN IF found # <<>>
          THEN /\ altPc' = "returned"
               /\ altReturn' = found
               /\ UNCHANGED altNext
          ELSE IF altNext < Len(altCandidates)
          THEN /\ altNext' = altNext + 1
               /\ UNCHANGED <<altPc, altReturn>>
          ELSE /\ altPc' = "returned"
               /\ altReturn' = <<cleanWord(altCurrentWord)>>
               /\ UNCHANGED altNext
    /\ UNCHANGED <<altCurrentWord, altCandidates>>
    /\ UNCHANGED <<svgVars, requestVars, walkVars, topicVars>>
    /\ UNCHANGED <<dispatchVars, classifyVars, textVars, handlerVars, appVars, functionVars>>

NextAltWord ==
    \/ AltWordCall
    \/ \E resp \in AltResponses : AltWordTurn(resp)

SpecAltWord == InitAltWord /\ [][NextAltWord]_vars

\* the response carries a word: a JSON object whose word is a string with a
\* letter in it
AltCarriesWord(resp) ==
    /\ resp.ok /\ resp.text = "json" /\ resp.jsonT = "object"
    /\ resp.word.t = "string"
    /\ \E c \in Range(resp.word.s) : c \in Letters

\* the candidate that gave this response failed: no word, or the current word
AltCandidateFailed(resp) ==
    \/ ~AltCarriesWord(resp)
    \/ LowerName(cleanWord(resp.word)) = LowerName(cleanWord(altCurrentWord))

\* C23: generateAlternativeWord calls the candidates in order and returns the
\* word of the first response that carries a word other than the current one
\* (compared without case); when every candidate fails it returns the cleaned
\* current word.
C23_AlternativeWordBestEffort ==
    /\ Len(altResponses) <= Len(altCandidates)
    /\ \A i \in 1..(Len(altResponses) - 1) : AltCandidateFailed(altResponses[i])
    /\ altPc = "returned" =>
          LET last == altResponses[Len(altResponses)] IN
          IF AltCandidateFailed(last)
          THEN /\ Len(altResponses) = Len(altCandidates)
               /\ altReturn = <<cleanWord(altCurrentWord)>>
          ELSE altReturn = <<cleanWord(last.word)>>

\* ---------------------------------------------------------------------
\* SpecRequest: the handler's reading of one request body and of process.env
\* (part_003:835-840, 902-906).
\* ---------------------------------------------------------------------
BlankName == [pad |-> TRUE, prefixes |-> 0, name |-> ""]

\* body.model: no string, or a string: empty, blank, 'models/', a name with
\* and without prefix and padding
RequestModels ==
    {[isString |-> FALSE, name |-> EmptyName]} \union
    {[isString |-> TRUE, name |-> m] :
        m \in BodyModelSamples \union
              {BlankName, ModelName(1, ""), ModelName(2, "gemini-2.5-pro"),
               ModelName(0, "gemini-3.1-pro-preview")}}

RequestEnvModels ==
    EnvTextModelSamples \union {BlankName, ModelName(1, "gemini-2.5-pro"), ModelName(0, "custom")}

\* body.pairCount: missing, null, true, numbers, strings that spell a number
\* or none
RequestPairCounts ==
    {JsValue("undefined", NaN), JsValue("null", Num(0)), JsValue("boolean", Num(1)),
     JsValue("number", NaN), JsValue("number", Fraction(3, 5)),
     JsValue("string", Num(4)), JsValue("string", Num(0)), JsValue("string", NaN)}
    \union {JsValue("number", Num(n)) : n \in 2..6}

RequestLanguages ==
    {Undefined, NumberValue, Str(<<>>), Str(<<" ", "\t">>), Str(<<" ", "d", "a", " ">>)}

InitRequest ==
    /\ reqBody \in {<<body>> : body \in [model : RequestModels, pairCount : RequestPairCounts,
                                         language : RequestLanguages]}
    /\ reqEnv \in {<<env>> : env \in [GEMINI_MODEL : RequestEnvModels]}
    /\ RequestNotParsed
    /\ IdleSvg /\ IdleAltWord /\ IdleWalk /\ IdleTopic
    /\ IdleDispatch /\ IdleClassify /\ IdleText /\ IdleHandler /\ IdleApp /\ IdleFunctions

\* lines 835-840 and 902-906
RequestParse ==
    /\ reqParsed = <<>>
    /\ reqParsed' = <<[language |-> HandlerLanguage(reqBody[1]),
                       pairCount |-> HandlerPairCount(reqBody[1]),
                       textModelCandidates |->
                           TextModelCandidates(BodyModelName(reqBody[1]),
                                               reqEnv[1].GEMINI_MODEL)]>>
    /\ UNCHANGED <<reqBody, reqEnv, svgVars, altVars, walkVars, topicVars>>
    /\ UNCHANGED <<dispatchVars, classifyVars, textVars, handlerVars, appVars, functionVars>>

NextRequest == RequestParse

SpecRequest == InitRequest /\ [][NextRequest]_vars

\* a name without its padding and without one leading 'models/'
StrippedName(m) ==
    [pad |-> FALSE, prefixes |-> IF m.prefixes > 0 THEN m.prefixes - 1 ELSE 0, name |-> m.name]

\* the request names a model: a string that is not empty once stripped
ModelSupplied(body) == body.model.isString /\ StrippedName(body.model.name) # EmptyName

\* the default: GEMINI_MODEL when it names a model, else the built-in one
ConfiguredTextModel(env) ==
    IF StrippedName(env.GEMINI_MODEL) # EmptyName THEN StrippedName(env.GEMINI_MODEL)
    ELSE ModelName(0, "gemini-3.1-pro-preview")

\* C24: the list of text-model candidates is not empty and holds no name
\* twice; its first element is the model the request names, stripped of one
\* leading 'models/', or the configured default when the request names none;
\* the rest are the fixed fallback models other than the first element, in
\* their fixed order.
C24_CandidateList ==
    reqParsed # <<>> =>
        LET candidates == reqParsed[1].textModelCandidates IN
        /\ candidates # <<>>
        /\ \A i, j \in DOMAIN candidates : i # j => candidates[i] # candidates[j]
        /\ candidates[1] = IF ModelSupplied(reqBody[1]) THEN StrippedName(reqBody[1].model.name)
                           ELSE ConfiguredTextModel(reqEnv[1])
        /\ SubSeq(candidates, 2, Len(candidates))
              = SelectSeq(TEXT_MODEL_FALLBACK_ORDER, LAMBDA m : m # candidates[1])

\* a request for 'models/gemini-2.5-pro': the name of that fallback model
\* comes first, without the prefix, and is not repeated
C24_Witness ==
    /\ reqParsed # <<>>
    /\ reqBody[1].model = [isString |-> TRUE, name |-> ModelName(1, "gemini-2.5-pro")]
    /\ reqParsed[1].textModelCandidates =
          <<ModelName(0, "gemini-2.5-pro"), ModelName(0, "gemini-3.1-pro-preview"),
            ModelName(0, "gemini-2.5-flash")>>

\* the number the body's pairCount stands for is 3, 4 or 5
PairCountAllowed(value) ==
    value.num.finite /\ value.num.tenths = 0 /\ value.num.n \in {3, 4, 5}

\* C29: whatever the request body holds, the handler's pair count is 3, 4 or
\* 5: the number supplied when that is one of the three, 5 when pairCount is
\* missing or stands for anything else; and its language is a string that is
\* not empty: the supplied one trimmed, 'English' when language is missing, no
\* string, or blank.
C29_RequestNormalized ==
    reqParsed # <<>> =>
        LET body == reqBody[1]
            parsed == reqParsed[1]
        IN /\ parsed.pairCount \in {3, 4, 5}
           /\ PairCountAllowed(body.pairCount) => parsed.pairCount = body.pairCount.num.n
           /\ ~PairCountAllowed(body.pairCount) => parsed.pairCount = 5
           /\ parsed.language # <<>>
           /\ (body.language.t # "string"
                  \/ \A c \in Range(body.language.s) : c \in WhitespaceChars)
                 => parsed.language = English
           /\ parsed.language # English =>
                 /\ parsed.language = Trim(body.language.s)
                 /\ Head(parsed.language) \notin WhitespaceChars

\* a request for 6 pairs in a blank language, worked on as 5 pairs in English
C29_Witness ==
    /\ reqParsed # <<>>
    /\ reqBody[1].pairCount = JsValue("number", Num(6))
    /\ reqBody[1].language = Str(<<" ", "\t">>)
    /\ reqParsed[1].pairCount = 5
    /\ reqParsed[1].language = English

\* ---------------------------------------------------------------------
\* SpecImageWalk: one call of generateWordImageWithGemini as the handler makes
\* it, for a word of a worksheet (line 1060) or for a single-word request
\* (line 950), with the attempts and the candidates the handler derives from
\* process.env.
\* ---------------------------------------------------------------------
\* DEFAULT_IMAGE_ATTEMPTS: Number(process.env.GEMINI_IMAGE_ATTEMPTS || '1')
WalkAttemptValues ==
    {NaN, Num(-5), Num(0), Num(1), Num(2), Num(3), Num(99), Fraction(2, 7)}

\* lines 950, 1060: maxAttemptsPerModel
WalkMaxAttempts(single, env) ==
    IF single THEN Max(2, geminiImageAttempts(env)) ELSE geminiImageAttempts(env)

\* an image, text instead of an image, nothing, an error that is retryable and
\* one that is not
WalkResponses ==
    {ImageOkResponse(<<InlinePart("image/png", <<"A", "A", "=">>)>>),
     ImageOkResponse(<<TextPart("sorry")>>),
     ImageOkResponse(<<InlinePart("image/png", <<>>)>>),
     ImageOkResponse(<<>>),
     ImageErrorResponse(429, <<ThrottledMessage>>),
     ImageErrorResponse(400, <<ApiKeyMessage>>)}

InitImageWalk ==
    /\ walkSingleWord \in BOOLEAN
    /\ walkEnv \in {<<env>> : env \in [GEMINI_IMAGE_MODEL : EnvImageModelSamples,
                                       GEMINI_IMAGE_ATTEMPTS : WalkAttemptValues]}
    /\ WalkNotCalled
    /\ IdleSvg /\ IdleAltWord /\ IdleRequest /\ IdleTopic
    /\ IdleDispatch /\ IdleClassify /\ IdleText /\ IdleHandler /\ IdleApp /\ IdleFunctions

WalkCandidates == ImageModelCandidates(walkEnv[1].GEMINI_IMAGE_MODEL)

\* lines 623-637: the call up to its first await, or to line 696 when the
\* loops have nothing to run
ImageWalkCall ==
    /\ walkPc = "notCalled"
    /\ IF WalkCandidates # <<>> /\ WalkMaxAttempts(walkSingleWord, walkEnv[1]) > 0
       THEN /\ walkPc' = "await"
            /\ walkLocals' = <<ImageWalkStart>>
            /\ UNCHANGED walkReturn
       ELSE /\ walkPc' = "returned"
            /\ walkReturn' = <<ImageExhausted(ImageWalkStart)>>
            /\ UNCHANGED walkLocals
    /\ UNCHANGED <<walkSingleWord, walkEnv, walkCalls>>
    /\ UNCHANGED <<svgVars, altVars, requestVars, topicVars>>
    /\ UNCHANGED <<dispatchVars, classifyVars, textVars, handlerVars, appVars, functionVars>>

\* from the response of the awaited call to the next await or the return
ImageWalkTurn(resp) ==
    /\ walkPc = "await"
    /\ LET turn == ImageTurn(walkLocals[1], resp, WalkCandidates,
                             WalkMaxAttempts(walkSingleWord, walkEnv[1]))
       IN /\ walkCalls' = Append(walkCalls, [model |-> walkLocals[1].model,
                                             attempt |-> walkLocals[1].attempt,
                                             response |-> resp])
          /\ walkLocals' = <<turn.walk>>
          /\ IF turn.kind = "await"
             THEN UNCHANGED <<walkPc, walkReturn>>
             ELSE /\ walkPc' = "returned"
                  /\ walkReturn' = <<turn.image>>
    /\ UNCHANGED <<walkSingleWord, walkEnv>>
    /\ UNCHANGED <<svgVars, altVars, requestVars, topicVars>>
    /\ UNCHANGED <<dispatchVars, classifyVars, textVars, handlerVars, appVars, functionVars>>

NextImageWalk ==
    \/ ImageWalkCall
    \/ \E resp \in WalkResponses : ImageWalkTurn(resp)

SpecImageWalk == InitImageWalk /\ [][NextImageWalk]_vars

\* C25: the attempts per model the handler passes are between 1 and 3 for
\* every configured value, and at least 2 for a single-word request; the walk
\* makes at most attempts x |candidates| provider calls, has returned once it
\* made that many, and returns an image or an error that is not empty.
C25_ImageWalkBounded ==
    LET attempts == WalkMaxAttempts(walkSingleWord, walkEnv[1]) IN
    walkEnv # <<>> =>
        /\ attempts \in 1..3
        /\ walkSingleWord => attempts >= 2
        /\ Len(walkCalls) <= attempts * Len(WalkCandidates)
        /\ Len(walkCalls) = attempts * Len(WalkCandidates) => walkPc = "returned"
        /\ walkPc = "returned" =>
              \/ walkReturn[1].imageDataUrl # EmptyUrl /\ walkReturn[1].error = <<>>
              \/ /\ walkReturn[1].imageDataUrl = EmptyUrl
                 /\ walkReturn[1].error # <<>>
                 /\ walkReturn[1].error[1] # NoMessage

\* GEMINI_IMAGE_ATTEMPTS=99 and two candidate models: the walk returns an
\* error after 3 x 2 calls
C25_Witness ==
    /\ walkEnv # <<>>
    /\ walkEnv[1].GEMINI_IMAGE_ATTEMPTS = Num(99)
    /\ Len(WalkCandidates) = 2
    /\ Len(walkCalls) = 6
    /\ walkPc = "returned"
    /\ walkReturn[1].error # <<>>

\* what a response means to the walk: an image, a provider error that is not
\* retryable, or a turn that uses up one attempt
WalkOutcome(resp) ==
    IF ~resp.ok
    THEN IF isRetryableModelError(resp.status, GeminiImageErrorMessage(resp))
         THEN "retry" ELSE "fatal"
    ELSE LET image == extractImageDataFromPayload(resp.parts) IN
         IF image # <<>> /\ image[1].dataUrl # EmptyUrl THEN "image" ELSE "retry"

\* C26: the first provider call is the first attempt on the first model; a
\* call follows only a retryable error or a response without image, and it is
\* the next attempt on the same model as long as that model has attempts
\* left, else the first attempt on the next model; a fatal error ends the walk
\* at once with a failure, an image ends it with that image.
C26_ImageWalkOrder ==
    walkEnv # <<>> =>
        LET attempts == WalkMaxAttempts(walkSingleWord, walkEnv[1]) IN
        /\ \A k \in DOMAIN walkCalls :
              LET call == walkCalls[k] IN
              /\ k = 1 => call.model = 1 /\ call.attempt = 0
              /\ k > 1 =>
                    LET before == walkCalls[k - 1] IN
                    /\ WalkOutcome(before.response) = "retry"
                    /\ IF before.attempt + 1 < attempts
                       THEN call.model = before.model /\ call.attempt = before.attempt + 1
                       ELSE call.model = before.model + 1 /\ call.attempt = 0
              /\ WalkOutcome(call.response) \in {"fatal", "image"} =>
                    /\ k = Len(walkCalls)
                    /\ walkPc = "returned"
                    /\ WalkOutcome(call.response) = "fatal" <=>
                          walkReturn[1].imageDataUrl = EmptyUrl
        /\ walkPc = "await" => walkLocals[1].model <= Len(WalkCandidates)

\* two attempts per model, two models: a throttled call and a call answered
\* with text on the first model, then an error that is not retryable on the
\* second model, which ends the walk with one attempt unused
C26_Witness ==
    /\ walkEnv # <<>>
    /\ WalkMaxAttempts(walkSingleWord, walkEnv[1]) = 2
    /\ Len(WalkCandidates) = 2
    /\ Len(walkCalls) = 3
    /\ walkCalls[1].response = ImageErrorResponse(429, <<ThrottledMessage>>)
    /\ walkCalls[2].response = ImageOkResponse(<<TextPart("sorry")>>)
    /\ walkCalls[2].model = 1
    /\ walkCalls[3].model = 2
    /\ WalkOutcome(walkCalls[3].response) = "fatal"
    /\ walkPc = "returned"
    /\ walkReturn[1].error # <<>>

\* ---------------------------------------------------------------------
\* The card refresh (SpecAppImages)
\* ---------------------------------------------------------------------
\* the response carries an image reference that sanitizeImageDataUrl keeps
RefreshValid(resp) ==
    resp.status = 200 /\ sanitizeImageDataUrl(resp.imageDataUrl) # EmptyUrl

\* the sanitized image or the cleaned word of the response is not the card's
RefreshDiffers(resp, card) ==
    \/ sanitizeImageDataUrl(resp.imageDataUrl) # card.imageDataUrl
    \/ cleanWord(IF resp.word.t = "undefined" THEN Str(card.word) ELSE resp.word) # card.word

\* the cards of that id on display after the step (none when the worksheet
\* was replaced while the request was out)
CardsAfter(id) ==
    IF cards' = <<>> THEN {}
    ELSE {item \in Range(cards'[1].left) \union Range(cards'[1].right) : item.id = id}

\* the refresh ended with an error that is not empty, the worksheet and the
\* cards as they were
RefreshFailed ==
    /\ refreshCall' = <<>>
    /\ refreshingCardId' = <<>>
    /\ error' # <<>>
    /\ error'[1].detail # <<>>
    /\ error'[1].detail[1] # NoMessage
    /\ cards' = cards
    /\ worksheet' = worksheet

\* C27: a refresh has one request out at a time and never more than two in
\* all; a response that is valid and differs from the card the refresh was
\* called with ends the refresh without error, the card (if still on
\* display) carrying the sanitized image and the cleaned word; a valid
\* response that does not differ is followed by the second request, or, if it
\* answered the second, by a failure; an error response or one without valid
\* image is a failure; a failure sets an error that is not empty and leaves
\* the cards and the worksheet as they were.
C27_RefreshBounded ==
    [][\A resp \in RefreshResponses :
          RefreshResponse(resp) =>
             LET card == refreshCall[1].card
                 attempt == refreshCall[1].attempt
             IN /\ attempt + 1 <= 2
                /\ IF ~RefreshValid(resp) THEN RefreshFailed
                   ELSE IF RefreshDiffers(resp, card)
                   THEN /\ refreshCall' = <<>>
                        /\ refreshingCardId' = <<>>
                        /\ error' = error
                        /\ \A item \in CardsAfter(card.id) :
                              /\ item.imageDataUrl = sanitizeImageDataUrl(resp.imageDataUrl)
                              /\ item.word =
                                    cleanWord(IF resp.word.t = "undefined"
                                              THEN Str(card.word) ELSE resp.word)
                   ELSE IF attempt + 1 < 2
                   THEN /\ refreshCall' = <<[card |-> card, attempt |-> attempt + 1]>>
                        /\ cards' = cards
                        /\ error' = error
                   ELSE RefreshFailed]_vars

\* a refresh that was answered twice with the card's own image and word: it
\* ended with the error saying that no alternative was returned
C27_Witness ==
    /\ refreshCount > 0
    /\ refreshCall = <<>>
    /\ refreshingCardId = <<>>
    /\ cards # <<>>
    /\ error # <<>>
    /\ error[1].detail = <<Message("No alternative returned yet. Try refresh again.", {}, -1)>>

\* ---------------------------------------------------------------------
\* SpecTopic: the Randomize button (App.tsx:760-791), the request of
\* randomizeTopicWithModel (App.tsx:354-385), the route's randomizeTopic
\* branch (part_003:868-898) around generateRandomTopicWithOpenAi
\* (part_003:580-621), and the topic input (App.tsx:927-928).
\*   provider response: [ok, status, error: <<>> or <<message>>,
\*                       content: "none" | "prose" | "badjson" | "null" | "object",
\*                       topic: the value of parsed.topic]
\*   route response:    [status, topic: value, error: <<>> or <<message>>]
\* ---------------------------------------------------------------------
MaxTopicCalls == 2

TopicProviderResponse(ok, status, message, content, value) ==
    [ok |-> ok, status |-> status, error |-> message, content |-> content, topic |-> value]

TopicRouteResponse(status, value, message) ==
    [status |-> status, topic |-> value, error |-> message]

\* Mutant of TopicOf: the string is taken as it came.
TopicOf_Untrimmed(value) == IF value.t = "string" THEN value.s ELSE <<>>

\* typeof x.topic === 'string' ? x.topic.trim() : ''  (part_003:613, App.tsx:379)
TopicOf(value) == IF value.t = "string" THEN Trim(value.s) ELSE <<>>

\* generateRandomTopicWithOpenAi from the provider's response on: the topic
\* returned, or the message of what it throws
generateRandomTopicWithOpenAi(resp) ==
    IF ~resp.ok
    THEN [topic |-> <<>>,
          threw |-> <<IF resp.error # <<>> /\ resp.error[1] # NoMessage THEN resp.error[1]
                      ELSE NumberedMessage("OpenAI topic request failed", resp.status)>>]
    ELSE IF resp.content = "none"
    THEN [topic |-> <<>>, threw |-> <<Message("OpenAI did not return topic content.", {}, -1)>>]
    ELSE IF resp.content = "prose"
    THEN [topic |-> <<>>,
          threw |-> <<Message("Could not parse JSON from the model response.", {}, -1)>>]
    ELSE IF resp.content = "badjson"
    THEN [topic |-> <<>>, threw |-> <<Message("SyntaxError", {}, -1)>>]
    ELSE IF resp.content = "null"
    THEN [topic |-> <<>>, threw |-> <<Message("TypeError", {}, -1)>>]
    ELSE IF TopicOf(resp.topic) = <<>>
    THEN [topic |-> <<>>, threw |-> <<Message("OpenAI returned an empty topic.", {}, -1)>>]
    ELSE [topic |-> TopicOf(resp.topic), threw |-> <<>>]

\* randomizeTopicWithModel from the route's response on
randomizeTopicWithModel(resp) ==
    IF resp.status # 200
    THEN [topic |-> <<>>,
          threw |-> <<IF resp.error # <<>> THEN resp.error[1]
                      ELSE NumberedMessage("Topic randomization failed", resp.status)>>]
    ELSE IF TopicOf(resp.topic) = <<>>
    THEN [topic |-> <<>>, threw |-> <<Message("Model returned an empty topic.", {}, -1)>>]
    ELSE [topic |-> TopicOf(resp.topic), threw |-> <<>>]

\* ---- samples
TopicTexts == {<<"p", "e", "t", "s">>, <<"s", "e", "a">>}

TopicValues ==
    {Undefined, NumberValue, Str(<<>>), Str(<<" ">>), Str(<<" ", "\t">>),
     Str(<<"p", "e", "t", "s">>), Str(<<" ", "s", "e", "a", " ">>)}

TopicProviderResponses ==
    {TopicProviderResponse(FALSE, 429, <<ThrottledMessage>>, "none", Undefined),
     TopicProviderResponse(FALSE, 500, <<>>, "none", Undefined),
     TopicProviderResponse(TRUE, 200, <<>>, "none", Undefined),
     TopicProviderResponse(TRUE, 200, <<>>, "prose", Undefined),
     TopicProviderResponse(TRUE, 200, <<>>, "badjson", Undefined),
     TopicProviderResponse(TRUE, 200, <<>>, "null", Undefined)}
    \union {TopicProviderResponse(TRUE, 200, <<>>, "object", value) : value \in TopicValues}

InitTopic ==
    /\ IdleTopic
    /\ IdleSvg /\ IdleAltWord /\ IdleRequest /\ IdleWalk
    /\ IdleDispatch /\ IdleClassify /\ IdleText /\ IdleHandler /\ IdleApp /\ IdleFunctions

\* the topic input's onChange (App.tsx:928)
SetTopic(value) ==
    /\ topic # value
    /\ topic' = value
    /\ UNCHANGED <<isRandomizingTopic, topicCount, topicRequest, topicProvider, topicResponse>>
    /\ UNCHANGED <<svgVars, altVars, requestVars, walkVars>>
    /\ UNCHANGED <<dispatchVars, classifyVars, textVars, handlerVars, appVars, functionVars>>

\* a click on Randomize: handleRandomizeTopic up to the request (App.tsx:760-773)
HandleRandomizeTopic ==
    /\ topicCount < MaxTopicCalls
    /\ ~(isLoading \/ isRandomizingTopic)
    /\ isRandomizingTopic' = TRUE
    /\ error' = <<>>
    /\ topicRequest' = <<[topic |-> topic]>>
    /\ topicProvider' = <<>>
    /\ topicResponse' = <<>>
    /\ topicCount' = topicCount + 1
    /\ UNCHANGED topic
    /\ UNCHANGED <<generationRunRef, worksheet, cards, isLoading, isHydratingImages, warning,
                   warningDetails, runs, refreshVars>>
    /\ UNCHANGED <<svgVars, altVars, requestVars, walkVars>>
    /\ UNCHANGED <<dispatchVars, classifyVars, textVars, handlerVars, functionVars>>

\* the route without OPENAI_API_KEY (part_003:869-871)
TopicRouteNoKey ==
    /\ topicRequest # <<>>
    /\ topicResponse = <<>>
    /\ topicResponse' = <<TopicRouteResponse(500, Undefined,
                            <<Message("Missing server env OPENAI_API_KEY for topic randomization.",
                                      {}, -1)>>)>>
    /\ UNCHANGED <<topic, isRandomizingTopic, topicCount, topicRequest, topicProvider>>
    /\ UNCHANGED <<svgVars, altVars, requestVars, walkVars>>
    /\ UNCHANGED <<dispatchVars, classifyVars, textVars, handlerVars, appVars, functionVars>>

\* the route with a key, the provider answering resp (part_003:873-897)
TopicRoute(resp) ==
    /\ topicRequest # <<>>
    /\ topicResponse = <<>>
    /\ topicProvider' = <<resp>>
    /\ LET nextTopic == generateRandomTopicWithOpenAi(resp)
       IN topicResponse' =
             <<IF nextTopic.threw # <<>>
               THEN TopicRouteResponse(502, Undefined, nextTopic.threw)
               ELSE TopicRouteResponse(200, Str(nextTopic.topic), <<>>)>>
    /\ UNCHANGED <<topic, isRandomizingTopic, topicCount, topicRequest>>
    /\ UNCHANGED <<svgVars, altVars, requestVars, walkVars>>
    /\ UNCHANGED <<dispatchVars, classifyVars, textVars, handlerVars, appVars, functionVars>>

\* handleRandomizeTopic from the response on (App.tsx:372-790)
TopicResponse ==
    /\ topicResponse # <<>>
    /\ isRandomizingTopic
    /\ LET nextTopic == randomizeTopicWithModel(topicResponse[1])
       IN IF nextTopic.threw # <<>>
          THEN /\ error' = <<ThrownMessage(nextTopic.threw[1])>>
               /\ UNCHANGED topic
          ELSE /\ topic' = nextTopic.topic
               /\ UNCHANGED error
    /\ isRandomizingTopic' = FALSE
    /\ topicRequest' = <<>>
    /\ UNCHANGED <<topicCount, topicProvider, topicResponse>>
    /\ UNCHANGED <<generationRunRef, worksheet, cards, isLoading, isHydratingImages, warning,
                   warningDetails, runs, refreshVars>>
    /\ UNCHANGED <<svgVars, altVars, requestVars, walkVars>>
    /\ UNCHANGED <<dispatchVars, classifyVars, textVars, handlerVars, functionVars>>

NextTopic ==
    \/ \E value \in TopicTexts \union {<<>>} : SetTopic(value)
    \/ HandleRandomizeTopic
    \/ TopicRouteNoKey
    \/ \E resp \in TopicProviderResponses : TopicRoute(resp)
    \/ TopicResponse

SpecTopic == InitTopic /\ [][NextTopic]_vars

\* the provider's answer gives no topic: an error response, no content, content
\* that is not a JSON object, or a topic that is not a string or is empty
\* once trimmed
TopicProviderFailed(resp) ==
    \/ ~resp.ok
    \/ resp.content # "object"
    \/ resp.topic.t # "string"
    \/ \A i \in DOMAIN resp.topic.s : resp.topic.s[i] \in WhitespaceChars

\* C28: when the answer to a randomization arrives, the randomization fails
\* (an error that is not empty is shown and the topic stays what it was)
\* whenever the route had no key or the provider's answer gave no topic, and
\* otherwise the topic becomes the provider's string without the whitespace
\* around it, which is not empty, and no error is shown.
C28_TopicRandomization ==
    [][TopicResponse =>
          IF topicProvider = <<>> \/ TopicProviderFailed(topicProvider[1])
          THEN /\ topic' = topic
               /\ error' # <<>>
               /\ error'[1].detail # <<>>
               /\ error'[1].detail[1] # NoMessage
          ELSE /\ topic' = Trim(topicProvider[1].topic.s)
               /\ topic' # <<>>
               /\ error' = <<>>]_vars

\* the topic was typed over while a request was out, the provider answered
\* with a topic of whitespace, and the randomization ended with the error
\* and the typed topic
C28_Witness ==
    /\ topicCount > 0
    /\ ~isRandomizingTopic
    /\ topicProvider = <<TopicProviderResponse(TRUE, 200, <<>>, "object", Str(<<" ", "\t">>))>>
    /\ topicResponse # <<>>
    /\ topicResponse[1].status = 502
    /\ error = <<ThrownMessage(Message("OpenAI returned an empty topic.", {}, -1))>>
    /\ topic = <<"s", "e", "a">>

\* ---------------------------------------------------------------------
\* The response to a worksheet request (SpecHandler)
\* ---------------------------------------------------------------------
\* a 200 carrying a worksheet of pairCount pairs and no error
HandlerSucceeded ==
    /\ hResponse[1].status = 200
    /\ hResponse[1].error = <<>>
    /\ hResponse[1].worksheet # <<>>
    /\ Len(hResponse[1].worksheet[1].pairs) = pairCount

\* a status that is not 200, no worksheet, and an error string that is not
\* empty
HandlerFailed ==
    /\ hResponse[1].status # 200
    /\ hResponse[1].worksheet = <<>>
    /\ hResponse[1].error # <<>>
    /\ hResponse[1].error[1].form = "verbatim" =>
          /\ hResponse[1].error[1].detail # <<>>
          /\ hResponse[1].error[1].detail[1] # NoMessage

\* the handler has responded exactly when it holds a response, and the
\* response is a success or a failure
HandlerAnswered ==
    /\ hPc = "responded" <=> hResponse # <<>>
    /\ hResponse # <<>> => HandlerSucceeded \/ HandlerFailed

\* a response, once sent, is the response
HandlerAnswersOnce == [][hResponse # <<>> => hResponse' = hResponse]_vars

\* C30 (as claimed): the request is answered by a success with exactly
\* pairCount pairs, or by a failure whose error string is not empty and lists
\* the models that were called.
C30_NoSilentEmptyResult ==
    /\ HandlerAnswered
    /\ hResponse # <<>> /\ hResponse[1].status # 200 =>
          Range(tCalls) \subseteq Range(hResponse[1].error[1].tried)

\* ---------------------------------------------------------------------
\* Cards against the worksheet (SpecAppImages)
\* ---------------------------------------------------------------------
\* the slot of the worksheet at the card's pairIndex and side
SlotOf(card) ==
    IF card.side = "left" THEN worksheet[1].pairs[card.pairIndex + 1].left
    ELSE worksheet[1].pairs[card.pairIndex + 1].right

\* C31 (as claimed): whatever generations, hydration completions and card
\* refreshes have completed, in whatever order, the worksheet and the cards
\* are there together and every card carries the word and the image of the
\* worksheet slot at its pairIndex and side.
C31_CardsMatchWorksheet ==
    /\ worksheet = <<>> <=> cards = <<>>
    /\ cards # <<>> =>
          \A card \in ColumnCards :
             /\ card.pairIndex + 1 \in DOMAIN worksheet[1].pairs
             /\ card.word = SlotOf(card).word
             /\ card.imageDataUrl = SlotOf(card).imageDataUrl

\* the words the response reports as missing
ResponseMissingWords ==
    IF hResponse[1].imageDiagnostics = <<>> THEN {}
    ELSE Range(hResponse[1].imageDiagnostics[1].missingWords)

\* C32 (as claimed): in the response of a synchronous generation every slot
\* whose image reference is empty has its (cleaned) word among missingWords,
\* and a response without image warning has an image in every slot.
C32_MergeComplete ==
    (ImagePath /\ hPc = "responded") =>
        /\ \A slot \in Range(ResponseSlots) :
              slot.imageDataUrl = EmptyUrl =>
                 cleanWord(Str(slot.word)) \in ResponseMissingWords
        /\ hResponse[1].imageWarning = <<>> =>
              \A slot \in Range(ResponseSlots) : slot.imageDataUrl # EmptyUrl

\* ---------------------------------------------------------------------
\* The hydrating indicator (SpecApp, SpecAppReentrant)
\* ---------------------------------------------------------------------
\* the most recently started run has nothing left to do: it failed, its
\* worksheet needed no hydration, or all its image jobs have completed
LatestRunSettled ==
    /\ generationRunRef \in DOMAIN runs
    /\ runs[generationRunRef].pc \in {"failed", "shown", "done"}

MalformedResponse(resp) == resp.ok /\ ~UsableResponse(resp)

RefreshBlocked == isLoading \/ refreshingCardId # <<>>

\* C35: at most one refresh request is out, exactly while refreshingCardId is
\* set; from a state where a generation is loading or a refresh is in flight
\* no step starts a refresh: no request is added, refreshingCardId is not
\* set anew, and the error is not cleared by a refresh.
C35_RefreshExclusive ==
    [][/\ Len(refreshCall) <= 1
       /\ refreshCall # <<>> <=> refreshingCardId # <<>>
       /\ RefreshBlocked =>
             /\ Len(refreshCall') <= Len(refreshCall)
             /\ refreshingCardId' \in {refreshingCardId, <<>>}
             /\ refreshCount' = refreshCount]_vars

\* a generation started while a refresh was out: the refresh is still in
\* flight, the worksheet is loading, and cards are on display to click on
C35_Witness ==
    /\ isLoading
    /\ cards # <<>>
    /\ refreshingCardId # <<>>
    /\ Len(refreshCall) = 1

\* ---------------------------------------------------------------------
\* SpecAppOverlap: card refreshes while the images of the worksheet are
\* hydrated.  Generations answer with deferred worksheets (no image), the
\* hydration requests with a PNG data URL or an error, the refresh requests
\* with an https reference: an https reference on a card was put there by a
\* refresh.
\* ---------------------------------------------------------------------
OverlapTextResponses ==
    {resp \in AppTextResponses(3) :
        resp.status = 200 /\ resp.worksheet[1].pairs[1].right.word = <<"b", "a", "t">>}

OverlapHydrationResponses ==
    {SingleWordResponse(200, <<DataUrl("image/png", <<"A", "A", "=">>)>>, <<>>),
     SingleWordResponse(502, <<>>, <<ApiKeyMessage>>)}

OverlapRefreshResponses ==
    {RefreshResponseOf(200, <<HttpsUrl>>, Undefined, <<>>),
     RefreshResponseOf(200, <<HttpsUrl>>, Str(<<"r", "a", "t">>), <<>>)}

NextAppOverlap ==
    \/ \E count \in AppPairCounts : HandleGenerate(count)
    \/ \E runToken \in 1..MaxRuns, resp \in OverlapTextResponses :
         GenerateResponse(runToken, resp, [i \in 1..3 |-> i])
    \/ \E runToken \in 1..MaxRuns, w \in 1..hydrationConcurrency :
         \E resp \in OverlapHydrationResponses : HydrationResponse(runToken, w, resp)
    \/ \E card \in DisplayedCards : HandleRefreshCardImage(card)
    \/ \E resp \in OverlapRefreshResponses : RefreshResponse(resp)

SpecAppOverlap == InitApp /\ [][NextAppOverlap]_vars

\* the cards that carry an image installed by a refresh
RefreshedCards ==
    IF cards = <<>> THEN {}
    ELSE {card \in ColumnCards : card.imageDataUrl = sanitizeImageDataUrl(<<HttpsUrl>>)}

\* C36 (as claimed): a step of the hydration of the current run (a job of the
\* run that displays the cards completing) leaves every card that carries a
\* refreshed image as it is.
C36_RefreshNotClobbered ==
    [][\A t \in DOMAIN runs :
          (runs[t].token = generationRunRef /\ HydrationStepOf(t)) =>
              \A card \in RefreshedCards :
                 \E after \in Range(cards'[1].left) \union Range(cards'[1].right) :
                    /\ after.id = card.id
                    /\ after.imageDataUrl = card.imageDataUrl]_vars

\* ---------------------------------------------------------------------
\* SpecBusy: the three operations with a busy flag (generate, card refresh,
\* topic randomization), every request in flight being answered in the end.
\* ---------------------------------------------------------------------
BusyTextResponses ==
    {FilledResponse,
     HandlerErrorResponse(502, humanizeGeminiError(ApiKeyMessage,
                                                   <<ModelName(0, "gemini-2.5-pro")>>))}

BusyRefreshResponses ==
    {RefreshResponseOf(200, <<DataUrl("image/png", <<"A", "A", "=">>)>>, Undefined, <<>>),
     RefreshResponseOf(200, <<ScriptUrl>>, Str(<<"r", "a", "t">>), <<>>),
     RefreshResponseOf(502, <<>>, Undefined, <<ApiKeyMessage>>)}

BusyTopicResponses ==
    {TopicProviderResponse(FALSE, 500, <<>>, "none", Undefined),
     TopicProviderResponse(TRUE, 200, <<>>, "object", Str(<<" ">>)),
     TopicProviderResponse(TRUE, 200, <<>>, "object", Str(<<"p", "e", "t", "s">>))}

\* the responses to the requests in flight
BusyGenerateAnswered ==
    \E runToken \in 1..MaxRuns, resp \in BusyTextResponses :
       GenerateResponse(runToken, resp, [i \in 1..3 |-> i])

BusyRefreshAnswered == \E resp \in BusyRefreshResponses : RefreshResponse(resp)

BusyTopicRouted == TopicRouteNoKey \/ \E resp \in BusyTopicResponses : TopicRoute(resp)

NextBusy ==
    \/ \E count \in AppPairCounts : HandleGenerate(count)
    \/ BusyGenerateAnswered
    \/ \E card \in DisplayedCards : card.pairIndex = 0 /\ HandleRefreshCardImage(card)
    \/ BusyRefreshAnswered
    \/ HandleRandomizeTopic
    \/ BusyTopicRouted
    \/ TopicResponse

\* the network calls return: a request that is out is answered
BusyFairness ==
    /\ WF_vars(BusyGenerateAnswered)
    /\ WF_vars(BusyRefreshAnswered)
    /\ WF_vars(BusyTopicRouted)
    /\ WF_vars(TopicResponse)

SpecBusy == InitApp /\ [][NextBusy]_vars /\ BusyFairness

\* C37: a generation that is loading, a card refresh that is going on and a
\* topic randomization that is going on each lead to their flag being reset
\* (isLoading false, refreshingCardId null, isRandomizingTopic false),
\* whatever the answers are.
C37_BusyFlagsReleased ==
    /\ isLoading ~> ~isLoading
    /\ (refreshingCardId # <<>>) ~> (refreshingCardId = <<>>)
    /\ isRandomizingTopic ~> ~isRandomizingTopic

\* the three operations have ended in an error or without a change, and the
\* flags are down: the generation and the randomization failed, the refresh
\* was answered with a reference that is refused
C37_Witness ==
    /\ Len(runs) = 2
    /\ runs[2].pc = "failed"
    /\ ~isLoading
    /\ refreshCount > 0
    /\ refreshingCardId = <<>>
    /\ refreshCall = <<>>
    /\ topicCount > 0
    /\ ~isRandomizingTopic
    /\ topicResponse # <<>>
    /\ topicResponse[1].status = 502

\* ---------------------------------------------------------------------
\* SpecAppFail: generations that fail after a worksheet was displayed.  The
\* route answers with a deferred worksheet, with an error, with a status
\* that is not ok and no JSON, or with 200 and a payload whose worksheet is
\* missing or too short.
\* ---------------------------------------------------------------------
FailGoodResponse ==
    HandlerDeferredResponse(
        [worksheet |-> normalizeWordWorksheet([WorksheetJson(0) EXCEPT !.pairs = CatHatEntries],
                                              English, 3).value[1],
         usedModel |-> ModelName(0, "gemini-2.5-pro")])

FailTextResponses ==
    {FailGoodResponse,
     HandlerErrorResponse(502, humanizeGeminiError(ThrottledMessage,
                                                   <<ModelName(0, "gemini-2.5-pro")>>)),
     [HandlerErrorResponse(500, ThrownMessage(NoMessage)) EXCEPT !.error = <<>>],
     [HandlerErrorResponse(404, ThrownMessage(NoMessage)) EXCEPT !.error = <<>>],
     [FailGoodResponse EXCEPT !.worksheet = <<>>],
     [FailGoodResponse EXCEPT !.worksheet[1].pairs = SubSeq(@, 1, 2)]}

FailHydrationResponses ==
    {SingleWordResponse(200, <<DataUrl("image/png", <<"A", "A", "=">>)>>, <<>>)}

NextAppFail ==
    \/ \E count \in AppPairCounts : HandleGenerate(count)
    \/ \E runToken \in 1..MaxRuns, resp \in FailTextResponses :
         GenerateResponse(runToken, resp, [i \in 1..3 |-> i])
    \/ \E runToken \in 1..MaxRuns, w \in 1..hydrationConcurrency :
         \E resp \in FailHydrationResponses : HydrationResponse(runToken, w, resp)

SpecAppFail == InitApp /\ [][NextAppFail]_vars

\* the response makes generateWorksheet fail: a status that is not ok, no
\* worksheet in the payload, or fewer pairs than asked for
FailingResponse(resp, count) ==
    \/ resp.status # 200
    \/ resp.worksheet = <<>>
    \/ Len(resp.worksheet[1].pairs) < count

\* C38: the step of handleGenerate that receives a failing response leaves
\* the worksheet and the cards as they were, sets an error that is not
\* empty, and starts no hydration for the run (no image request, the
\* indicator off).
C38_FailedGenerationFrame ==
    [][\A t \in DOMAIN runs, resp \in FailTextResponses :
          (/\ FailingResponse(resp, runs[t].pairCount)
           /\ GenerateResponse(t, resp, [i \in 1..3 |-> i])) =>
              /\ worksheet' = worksheet
              /\ cards' = cards
              /\ error' # <<>>
              /\ error'[1].form = "verbatim" =>
                    error'[1].detail # <<>> /\ error'[1].detail[1] # NoMessage
              /\ runs'[t].pc = "failed"
              /\ runs'[t].jobs = runs[t].jobs
              /\ ~isHydratingImages'
              /\ ~isLoading']_vars

\* a second generation failed on a payload with too few pairs while the
\* first worksheet, fully hydrated, is on display
C38_Witness ==
    /\ Len(runs) = 2
    /\ runs[1].pc = "done"
    /\ runs[2].pc = "failed"
    /\ worksheet # <<>>
    /\ cards # <<>>
    /\ \A card \in ColumnCards : card.imageDataUrl # EmptyUrl
    /\ error = <<ThrownMessage(NumberedMessage("Model returned only N pairs. Try regenerate.", 2))>>

\* ---------------------------------------------------------------------
\* The frame of a successful card refresh (App.tsx:672-726), in SpecAppImages.
\* ---------------------------------------------------------------------
\* the card or slot `after` is `before` with the word and the image given
RefreshedFrom(before, after, nextWord, nextImageDataUrl) ==
    after = [before EXCEPT !.word = nextWord, !.imageDataUrl = nextImageDataUrl]

\* a column after the step: the card of that id refreshed, the others as
\* they were
ColumnFrame(before, after, id, nextWord, nextImageDataUrl) ==
    /\ Len(after) = Len(before)
    /\ \A i \in 1..Len(before) :
          IF before[i].id = id
          THEN RefreshedFrom(before[i], after[i], nextWord, nextImageDataUrl)
          ELSE after[i] = before[i]

\* C39: the step that ends a refresh with a valid response that differs from
\* the card gives the card of the refreshed id (while it is on display) and
\* the worksheet slot at the card's pairIndex and side the cleaned word and
\* the sanitized image of the response, and leaves every other card, every
\* other slot, the rhyme sounds of every pair, and the title, instruction and
\* language of the worksheet as they were.
C39_RefreshFrame ==
    [][\A resp \in RefreshResponses :
          (/\ RefreshResponse(resp)
           /\ RefreshValid(resp)
           /\ RefreshDiffers(resp, refreshCall[1].card)) =>
             LET card == refreshCall[1].card
                 nextImageDataUrl == sanitizeImageDataUrl(resp.imageDataUrl)
                 nextWord == cleanWord(IF resp.word.t = "undefined"
                                       THEN Str(card.word) ELSE resp.word)
             IN /\ (cards = <<>>) = (cards' = <<>>)
                /\ cards # <<>> =>
                      /\ ColumnFrame(cards[1].left, cards'[1].left, card.id,
                                     nextWord, nextImageDataUrl)
                      /\ ColumnFrame(cards[1].right, cards'[1].right, card.id,
                                     nextWord, nextImageDataUrl)
                /\ (worksheet = <<>>) = (worksheet' = <<>>)
                /\ worksheet # <<>> =>
                      /\ [worksheet'[1] EXCEPT !.pairs = worksheet[1].pairs] = worksheet[1]
                      /\ Len(worksheet'[1].pairs) = Len(worksheet[1].pairs)
                      /\ \A i \in 1..Len(worksheet[1].pairs) :
                            LET before == worksheet[1].pairs[i]
                                after == worksheet'[1].pairs[i]
                                target == i - 1 = card.pairIndex
                            IN /\ [after EXCEPT !.left = before.left,
                                                !.right = before.right] = before
                               /\ IF target /\ card.side = "left"
                                  THEN RefreshedFrom(before.left, after.left,
                                                     nextWord, nextImageDataUrl)
                                  ELSE after.left = before.left
                               /\ IF target /\ card.side = "right"
                                  THEN RefreshedFrom(before.right, after.right,
                                                     nextWord, nextImageDataUrl)
                                  ELSE after.right = before.right]_vars

\* a refresh has given the right card and the right slot of one pair another
\* word and an image, the left card and slot of that pair still without image
C39_Witness ==
    /\ refreshCount > 0
    /\ refreshCall = <<>>
    /\ error = <<>>
    /\ worksheet # <<>>
    /\ cards # <<>>
    /\ \E i \in 1..Len(worksheet[1].pairs) :
          /\ worksheet[1].pairs[i].right.word = <<"r", "a", "t", " ">>
          /\ worksheet[1].pairs[i].right.imageDataUrl = HttpsUrl
          /\ worksheet[1].pairs[i].left.word # <<"r", "a", "t", " ">>
          /\ worksheet[1].pairs[i].left.imageDataUrl = EmptyUrl
          /\ \E card \in Range(cards[1].right) :
                /\ card.pairIndex = i - 1
                /\ card.word = <<"r", "a", "t", " ">>
                /\ card.imageDataUrl = HttpsUrl

====
